---- MODULE Spec2Model ----
(***************************************************************************)
(* A model of hedge's operator-template rewriting passes                   *)
(* (hedge/optemplate/mappers/__init__.py), of the flux-coefficient         *)
(* compiler and of the tree-walking execution mapper                       *)
(* (src/python/discr_precompiled.py).                                      *)
(*                                                                         *)
(* Expression nodes are records [k, v, s, c]: k is the node class, v an    *)
(* integer parameter (constant value, axis, component index, exponent),    *)
(* s a string parameter (variable name, boundary tag, side) and c the      *)
(* tuple of children.  A raised Python exception is the node Raise(what),  *)
(* which every mapper hands upwards unchanged.                             *)
(***************************************************************************)
EXTENDS Integers, Sequences, FiniteSets, TLC

VARIABLES pc, optemplate, result, context

vars == <<pc, optemplate, result, context>>

(***************************************************************************)
(* Bounds of the model.                                                    *)
(***************************************************************************)
MaxAxis == 1
MaxDim == 2
MaxConst == 2
MaxExponent == 2
MaxValue == 1
MaxLen == 3

Axes == 0..MaxAxis
Tags == {"dirichlet", "neumann"}

(***************************************************************************)
(* Expression model.                                                       *)
(***************************************************************************)
Node(k, v, s, c) == [k |-> k, v |-> v, s |-> s, c |-> c]

Const(n) == Node("Const", n, "", <<>>)
Var(name) == Node("Var", 0, name, <<>>)
ScalarParameter(name) == Node("ScalarParameter", 0, name, <<>>)
Sum(children) == Node("Sum", 0, "", children)
Product(children) == Node("Product", 0, "", children)
Raise(what) == Node("Raise", 0, what, <<>>)
ObjArray(children) == Node("ObjArray", 0, "", children)

OperatorBinding(op, field) == Node("OperatorBinding", 0, "", <<op, field>>)
BoundaryPair(field, bfield, tag) == Node("BoundaryPair", 0, tag, <<field, bfield>>)
BoundaryNormalComponent(tag, axis) == Node("BoundaryNormalComponent", axis, tag, <<>>)

\* operators: leaves of the tree until they are bound
MassOperator == Node("MassOperator", 0, "", <<>>)
InverseMassOperator == Node("InverseMassOperator", 0, "", <<>>)
DifferentiationOperator(axis) == Node("DifferentiationOperator", axis, "", <<>>)
StiffnessTOperator(axis) == Node("StiffnessTOperator", axis, "", <<>>)
BoundarizeOperator(tag) == Node("BoundarizeOperator", 0, tag, <<>>)
FluxOperator(flux) == Node("FluxOperator", 0, "", <<flux>>)
BoundaryFluxOperator(flux, tag) == Node("BoundaryFluxOperator", 0, tag, <<flux>>)
FluxCoefficientOperator(int_coeff, ext_coeff) ==
    Node("FluxCoefficientOperator", 0, "", <<int_coeff, ext_coeff>>)

\* FluxOperator and BoundaryFluxOperator carry is_lift in v (0: False, the
\* default); Lifted(op) is the operator built with is_lift=True
Lifted(op) == [op EXCEPT !.v = 1]
StiffnessOperator(axis) == Node("StiffnessOperator", axis, "", <<>>)
MInvSTOperator(axis) == Node("MInvSTOperator", axis, "", <<>>)

\* quadrature siblings: the quadrature tag is s; an operator that also has a
\* boundary tag keeps the boundary tag in s and the quadrature tag in a leaf
QuadratureTag(quadrature_tag) == Node("quadrature_tag", 0, quadrature_tag, <<>>)
QuadratureMassOperator(quadrature_tag) ==
    Node("QuadratureMassOperator", 0, quadrature_tag, <<>>)
QuadratureStiffnessTOperator(xyz_axis, quadrature_tag) ==
    Node("QuadratureStiffnessTOperator", xyz_axis, quadrature_tag, <<>>)
QuadratureInteriorFacesGridUpsampler(quadrature_tag) ==
    Node("QuadratureInteriorFacesGridUpsampler", 0, quadrature_tag, <<>>)
QuadratureGridUpsampler(quadrature_tag) ==
    Node("QuadratureGridUpsampler", 0, quadrature_tag, <<>>)
QuadratureBoundaryGridUpsampler(quadrature_tag, boundary_tag) ==
    Node("QuadratureBoundaryGridUpsampler", 0, boundary_tag,
         <<QuadratureTag(quadrature_tag)>>)
QuadratureFluxOperator(flux, quadrature_tag) ==
    Node("QuadratureFluxOperator", 0, quadrature_tag, <<flux>>)
QuadratureBoundaryFluxOperator(flux, quadrature_tag, boundary_tag) ==
    Node("QuadratureBoundaryFluxOperator", 0, boundary_tag,
         <<flux, QuadratureTag(quadrature_tag)>>)

DiffOperatorBase ==
    {"DifferentiationOperator", "StiffnessTOperator", "StiffnessOperator",
     "MInvSTOperator", "QuadratureStiffnessTOperator"}
MassOperatorBase == {"MassOperator", "InverseMassOperator", "QuadratureMassOperator"}
FluxOperatorBase ==
    {"FluxOperator", "BoundaryFluxOperator", "QuadratureFluxOperator",
     "QuadratureBoundaryFluxOperator"}
BoundaryFluxOperatorBase == {"BoundaryFluxOperator", "QuadratureBoundaryFluxOperator"}
OperatorKinds ==
    DiffOperatorBase \cup MassOperatorBase \cup FluxOperatorBase
        \cup {"BoundarizeOperator", "FluxCoefficientOperator",
              "QuadratureGridUpsampler", "QuadratureBoundaryGridUpsampler",
              "QuadratureInteriorFacesGridUpsampler"}

IsOperator(e) == e.k \in OperatorKinds
IsRaise(e) == e.k = "Raise"

\* flux expressions (hedge.flux) and compiled flux kernels (hedge._internal)
FieldComponent(index, side) == Node("FieldComponent", index, side, <<>>)
Normal(axis) == Node("Normal", axis, "", <<>>)
PenaltyTerm(power) == Node("PenaltyTerm", power, "", <<>>)
Negation(child) == Node("Negation", 0, "", <<child>>)
Power(base, exponent, exptype) == Node("Power", exponent, exptype, <<base>>)
IfPositive(criterion, then, else) == Node("IfPositive", 0, "", <<criterion, then, else>>)
Quotient(num, den) == Node("Quotient", 0, "", <<num, den>>)
InternalFlux(id) == Node("InternalFlux", id, "", <<>>)

ConstantFlux(value) == Node("ConstantFlux", value, "", <<>>)
NormalFlux(axis) == Node("NormalFlux", axis, "", <<>>)
PenaltyFlux(power) == Node("PenaltyFlux", power, "", <<>>)
ChainedFlux(child) == Node("ChainedFlux", 0, "", <<child>>)
SumFlux(operand1, operand2) == Node("SumFlux", 0, "", <<operand1, operand2>>)
ProductFlux(operand1, operand2) == Node("ProductFlux", 0, "", <<operand1, operand2>>)
NegativeFlux(operand) == Node("NegativeFlux", 0, "", <<operand>>)
IfPositiveFlux(criterion, then, else) ==
    Node("IfPositiveFlux", 0, "", <<criterion, then, else>>)

\* the first raised exception among a tuple of mapped children, if any
RECURSIVE FirstRaise(_)
FirstRaise(seq) ==
    IF seq = <<>> THEN Const(0)
    ELSE IF IsRaise(Head(seq)) THEN Head(seq) ELSE FirstRaise(Tail(seq))

AnyRaise(seq) == \E i \in 1..Len(seq) : IsRaise(seq[i])

(***************************************************************************)
(* pymbolic.primitives helpers used by the mappers.                        *)
(***************************************************************************)
\* flattened_sum / flattened_product: a queue; the children of a nested node
\* of the same class are appended to the END of the queue
RECURSIVE FlattenQueue(_, _, _)
FlattenQueue(queue, done, klass) ==
    IF queue = <<>> THEN done
    ELSE LET item == Head(queue) IN
         IF item.k = klass
         THEN FlattenQueue(Tail(queue) \o item.c, done, klass)
         ELSE FlattenQueue(Tail(queue), Append(done, item), klass)

flattened_product(components) ==
    LET done == FlattenQueue(components, <<>>, "Product") IN
    IF AnyRaise(done) THEN FirstRaise(done)
    ELSE IF Len(done) = 0 THEN Const(1)
    ELSE IF Len(done) = 1 THEN done[1]
    ELSE Product(done)

flattened_sum(components) ==
    LET done == FlattenQueue(components, <<>>, "Sum") IN
    IF AnyRaise(done) THEN FirstRaise(done)
    ELSE IF Len(done) = 0 THEN Const(0)
    ELSE IF Len(done) = 1 THEN done[1]
    ELSE Sum(done)

\* Python's a * b on pymbolic expressions and numbers
\* (Expression.__mul__, Expression.__rmul__, Product.__mul__)
PyMul(a, b) ==
    IF IsRaise(a) THEN a
    ELSE IF IsRaise(b) THEN b
    ELSE IF a.k = "Const" /\ b.k = "Const" THEN Const(a.v * b.v)
    ELSE IF a.k = "Const"
    THEN IF a.v = 1 THEN b
         ELSE IF a.v = 0 THEN Const(0)
         ELSE IF b.k = "Product" THEN Product(<<a>> \o b.c)
         ELSE Product(<<a, b>>)
    ELSE IF b.k = "Const" /\ b.v = 1 THEN a
    ELSE IF b.k = "Const" /\ b.v = 0 THEN Const(0)
    ELSE IF a.k = "Product"
    THEN IF b.k = "Product" THEN Product(a.c \o b.c) ELSE Product(Append(a.c, b))
    ELSE Product(<<a, b>>)

\* Python's a + b on pymbolic expressions and numbers
\* (Expression.__add__, Expression.__radd__, Sum.__add__)
PyAdd(a, b) ==
    IF IsRaise(a) THEN a
    ELSE IF IsRaise(b) THEN b
    ELSE IF a.k = "Const" /\ b.k = "Const" THEN Const(a.v + b.v)
    ELSE IF a.k = "Const"
    THEN IF a.v = 0 THEN b
         ELSE IF b.k = "Sum" THEN Sum(<<a>> \o b.c)
         ELSE Sum(<<a, b>>)
    ELSE IF b.k = "Const" /\ b.v = 0 THEN a
    ELSE IF a.k = "Sum"
    THEN IF b.k = "Sum" THEN Sum(a.c \o b.c) ELSE Sum(Append(a.c, b))
    ELSE IF b.k = "Sum" THEN Sum(<<a>> \o b.c)
    ELSE Sum(<<a, b>>)

\* hedge.tools.is_zero: a scalar that equals 0
is_zero(x) == x.k = "Const" /\ x.v = 0

(***************************************************************************)
(* _FluxCoefficientCompiler (src/python/discr_precompiled.py).             *)
(***************************************************************************)
\* handle_unsupported_expression: an already compiled _internal.Flux is
\* handed back as it is, everything else raises
FluxCoefficientCompiler_handle_unsupported_expression_AcceptAll(expr) == expr

FluxCoefficientCompiler_handle_unsupported_expression(expr) ==
    IF expr.k = "InternalFlux" THEN expr ELSE Raise("ValueError")

\* reduce(lambda f1, f2: klass(ChainedFlux(f1), ChainedFlux(f2)), fluxes)
RECURSIVE ReduceChained(_, _, _)
ReduceChained(klass, acc, rest) ==
    IF rest = <<>> THEN acc
    ELSE ReduceChained(klass,
            Node(klass, 0, "", <<ChainedFlux(acc), ChainedFlux(Head(rest))>>),
            Tail(rest))

\* for i in range(1, exponent): result = ProductFlux(ChainedFlux(result), chain_base)
RECURSIVE PowerLoop(_, _, _, _)
PowerLoop(res, chain_base, i, exponent) ==
    IF i >= exponent THEN res
    ELSE PowerLoop(ProductFlux(ChainedFlux(res), chain_base), chain_base,
                   i + 1, exponent)

\* map_power once the base is compiled
FluxCoefficientCompiler_map_power(base, expr) ==
    IF IsRaise(base) THEN base
    ELSE IF expr.s # "int" THEN Raise("AssertionError")
    ELSE PowerLoop(base, ChainedFlux(base), 1, expr.v)

RECURSIVE FluxCoefficientCompiler(_)
FluxCoefficientCompiler(expr) ==
    LET mapped == [i \in 1..Len(expr.c) |-> FluxCoefficientCompiler(expr.c[i])] IN
    CASE expr.k = "Const" -> ConstantFlux(expr.v)
      [] expr.k = "Sum" ->
            IF AnyRaise(mapped) THEN FirstRaise(mapped)
            ELSE IF mapped = <<>> THEN Raise("TypeError")
            ELSE ReduceChained("SumFlux", Head(mapped), Tail(mapped))
      [] expr.k = "Product" ->
            IF AnyRaise(mapped) THEN FirstRaise(mapped)
            ELSE IF mapped = <<>> THEN Raise("TypeError")
            ELSE ReduceChained("ProductFlux", Head(mapped), Tail(mapped))
      [] expr.k = "Negation" ->
            IF AnyRaise(mapped) THEN FirstRaise(mapped)
            ELSE NegativeFlux(ChainedFlux(mapped[1]))
      [] expr.k = "Power" -> FluxCoefficientCompiler_map_power(mapped[1], expr)
      [] expr.k = "Normal" -> NormalFlux(expr.v)
      [] expr.k = "PenaltyTerm" -> PenaltyFlux(expr.v)
      [] expr.k = "IfPositive" ->
            IF AnyRaise(mapped) THEN FirstRaise(mapped)
            ELSE IfPositiveFlux(ChainedFlux(mapped[1]), ChainedFlux(mapped[2]),
                                ChainedFlux(mapped[3]))
      [] OTHER -> FluxCoefficientCompiler_handle_unsupported_expression(expr)

(***************************************************************************)
(* DependencyMapper (mappers/__init__.py) over pymbolic's DependencyMapper *)
(***************************************************************************)
RECURSIVE DependencyMapper(_, _)
DependencyMapper(expr, include_operator_bindings) ==
    CASE expr.k \in {"Var", "ScalarParameter"} -> {expr}
      [] expr.k = "OperatorBinding" ->
            IF include_operator_bindings THEN {expr}
            ELSE DependencyMapper(expr.c[1], include_operator_bindings)
                    \cup DependencyMapper(expr.c[2], include_operator_bindings)
      [] expr.k \in OperatorKinds -> {}
      [] expr.k = "BoundaryNormalComponent" -> {}
      [] OTHER ->
            UNION {DependencyMapper(expr.c[i], include_operator_bindings) :
                        i \in 1..Len(expr.c)}

(***************************************************************************)
(* hedge.flux.FluxSubstitutionMapper: subst_map is a function from flux    *)
(* leaves to their replacements; a leaf outside its domain is kept.  Sums  *)
(* and products are rebuilt by pymbolic's IdentityMapper.                  *)
(***************************************************************************)
RECURSIVE FluxSubstitutionMapper(_, _)
FluxSubstitutionMapper(subst_map, flux) ==
    LET mapped == [i \in 1..Len(flux.c) |->
                        FluxSubstitutionMapper(subst_map, flux.c[i])] IN
    CASE flux.k \in {"FieldComponent", "Normal"} ->
            IF flux \in DOMAIN subst_map THEN subst_map[flux] ELSE flux
      [] flux.k = "Sum" -> flattened_sum(mapped)
      [] flux.k = "Product" -> flattened_product(mapped)
      [] flux.c = <<>> -> flux
      [] OTHER ->
            IF AnyRaise(mapped) THEN FirstRaise(mapped)
            ELSE Node(flux.k, flux.v, flux.s, mapped)

\* type(expr.op)(new_flux, *expr.op.__getinitargs__()[1:])
WithFlux(op, new_flux) == Node(op.k, op.v, op.s, <<new_flux>>)

\* is_obj_array(field) or [field]
AsList(field) == IF field.k = "ObjArray" THEN field.c ELSE <<field>>
make_obj_array(list) == ObjArray(list)

(***************************************************************************)
(* CommutativeConstantFoldingMapper (mappers/__init__.py) over pymbolic's  *)
(* ConstantFoldingMapperBase.fold.                                         *)
(***************************************************************************)
NoValue == Node("None", 0, "", <<>>)

\* is_constant: the DependencyMapper finds nothing
is_constant(expr) == DependencyMapper(expr, TRUE) = {}

\* evaluate: pymbolic.evaluate(expr), None when the evaluator cannot map expr
evaluate(expr) == IF expr.k = "Const" THEN expr ELSE NoValue

RECURSIVE ReduceConstants(_, _, _)
ReduceConstants(klass, acc, rest) ==
    IF rest = <<>> THEN acc
    ELSE ReduceConstants(klass,
            IF klass = "Sum" THEN acc + Head(rest).v ELSE acc * Head(rest).v,
            Tail(rest))

\* line 882: the boundary side starts its own numbering at 0
fold_bdry_new_idx_Continued(vol_new_idx) == vol_new_idx

fold_bdry_new_idx(vol_new_idx) == 0

RECURSIVE CommutativeConstantFoldingMapper(_)
RECURSIVE FoldQueue(_, _, _, _)
RECURSIVE ProcessFluxArgs(_, _, _, _, _, _)

\* the while loop of fold(): <<constants, nonconstants>>
FoldQueue(queue, constants, nonconstants, klass) ==
    IF queue = <<>> THEN <<constants, nonconstants>>
    ELSE LET child == CommutativeConstantFoldingMapper(Head(queue)) IN
         IF child.k = klass
         THEN FoldQueue(child.c \o Tail(queue), constants, nonconstants, klass)
         ELSE IF is_constant(child) /\ evaluate(child) # NoValue
         THEN FoldQueue(Tail(queue), Append(constants, evaluate(child)),
                        nonconstants, klass)
         ELSE FoldQueue(Tail(queue), constants, Append(nonconstants, child), klass)

\* one of the two loops over the flux arguments (lines 866-877, 881-892):
\* [new_field, new_idx, subst_map]
ProcessFluxArgs(field, side, i, new_field, new_idx, subst_map) ==
    IF i > Len(field)
    THEN [new_field |-> new_field, new_idx |-> new_idx, subst_map |-> subst_map]
    ELSE LET fc == FieldComponent(i - 1, side)
             flux_arg == CommutativeConstantFoldingMapper(field[i])
             to == IF is_zero(flux_arg) THEN Const(0)
                   ELSE FieldComponent(new_idx, side)
             new_map == [x \in DOMAIN subst_map \cup {fc} |->
                            IF x = fc THEN to ELSE subst_map[x]]
         IN IF is_zero(flux_arg)
            THEN ProcessFluxArgs(field, side, i + 1, new_field, new_idx, new_map)
            ELSE ProcessFluxArgs(field, side, i + 1, Append(new_field, flux_arg),
                                 new_idx + 1, new_map)

\* lines 853-892: the locals after both loops
RemoveZeros(expr) ==
    LET bpair == expr.c[2]
        vol == ProcessFluxArgs(AsList(bpair.c[1]), "int", 1, <<>>, 0,
                               [x \in {} |-> Const(0)])
        bdry == ProcessFluxArgs(AsList(bpair.c[2]), "ext", 1, <<>>,
                                fold_bdry_new_idx(vol.new_idx), vol.subst_map)
    IN [new_vol_field |-> vol.new_field,
        new_bdry_field |-> bdry.new_field,
        subst_map |-> bdry.subst_map]

CommutativeConstantFoldingMapper(expr) ==
    CASE expr.k \in {"Sum", "Product"} ->
            LET folded == FoldQueue(expr.c, <<>>, <<>>, expr.k)
                constants == folded[1]
                nonconstants == folded[2]
                constant == Const(ReduceConstants(expr.k, Head(constants).v,
                                                  Tail(constants)))
                terms == IF constants # <<>> THEN <<constant>> \o nonconstants
                         ELSE nonconstants
            IN IF expr.k = "Sum" THEN flattened_sum(terms)
               ELSE flattened_product(terms)
      [] expr.k = "OperatorBinding" ->
            IF is_zero(expr.c[2]) THEN Const(0)
            ELSE IF ~(expr.c[1].k \in FluxOperatorBase
                        /\ expr.c[2].k = "BoundaryPair")
            THEN LET field == CommutativeConstantFoldingMapper(expr.c[2]) IN
                 IF IsRaise(field) THEN field
                 ELSE OperatorBinding(expr.c[1], field)
            ELSE LET locals == RemoveZeros(expr)
                     new_flux == FluxSubstitutionMapper(locals.subst_map,
                                                        expr.c[1].c[1])
                 IN IF AnyRaise(locals.new_vol_field)
                    THEN FirstRaise(locals.new_vol_field)
                    ELSE IF AnyRaise(locals.new_bdry_field)
                    THEN FirstRaise(locals.new_bdry_field)
                    ELSE IF is_zero(new_flux) THEN Const(0)
                    ELSE OperatorBinding(
                            WithFlux(expr.c[1], new_flux),
                            BoundaryPair(make_obj_array(locals.new_vol_field),
                                         make_obj_array(locals.new_bdry_field),
                                         expr.c[2].s))
      [] expr.k \in {"BoundaryPair", "ObjArray"} ->
            LET mapped == [i \in 1..Len(expr.c) |->
                                CommutativeConstantFoldingMapper(expr.c[i])] IN
            IF AnyRaise(mapped) THEN FirstRaise(mapped)
            ELSE Node(expr.k, expr.v, expr.s, mapped)
      [] OTHER -> expr

(***************************************************************************)
(* Specification SpecFluxCompile: _FluxOpCompileMapper.compile_coefficient *)
(* applied to one flux coefficient expression.                             *)
(***************************************************************************)
NoContext == [dimensions |-> 0]

InitFluxCompile ==
    LET \* the coefficient expressions handed to the compiler: leaves, one operation
        \* over leaves, and one more operation over those
        FluxCoefficients ==
            LET Exponents == (0 - 1)..MaxExponent
                ExponentTypes == {"int", "float"}
                FluxLeaves ==
                    {Const(n) : n \in 0..MaxConst} \cup {Normal(a) : a \in Axes}
                        \cup {PenaltyTerm(1), InternalFlux(0), FieldComponent(0, "int"),
                              Var("u")}
                FluxLevel1 ==
                    FluxLeaves
                        \cup {Sum(<<a, b>>) : a \in FluxLeaves, b \in FluxLeaves}
                        \cup {Product(<<a, b>>) : a \in FluxLeaves, b \in FluxLeaves}
                        \cup {Negation(a) : a \in FluxLeaves}
                        \cup {Power(a, e, t) :
                                a \in FluxLeaves, e \in Exponents, t \in ExponentTypes}
                        \cup {IfPositive(a, b, Const(0)) : a \in FluxLeaves, b \in FluxLeaves}
            IN FluxLevel1
                \cup {Negation(a) : a \in FluxLevel1}
                \cup {Sum(<<Const(1), a>>) : a \in FluxLevel1}
                \cup {Power(a, MaxExponent, "int") : a \in FluxLevel1}
    IN
    /\ pc = "coefficient"
    /\ optemplate \in FluxCoefficients
    /\ result = Const(0)
    /\ context = NoContext

\* _FluxOpCompileMapper.compile_coefficient: self.coeff_comp(coeff)
compile_coefficient ==
    /\ pc = "coefficient"
    /\ result' = FluxCoefficientCompiler(optemplate)
    /\ pc' = IF IsRaise(result') THEN "raised" ELSE "kernel"
    /\ UNCHANGED <<optemplate, context>>

NextFluxCompile == compile_coefficient

SpecFluxCompile == InitFluxCompile /\ [][NextFluxCompile]_vars

\* the nodes of e, at any depth
RECURSIVE SubNodes(_)
SubNodes(e) == {e} \cup UNION {SubNodes(e.c[i]) : i \in 1..Len(e.c)}

AllNodes(e, P(_)) == \A n \in SubNodes(e) : P(n)

FluxLanguageKinds ==
    {"Const", "Sum", "Product", "Negation", "Power", "Normal", "PenaltyTerm",
     "IfPositive"}

InFluxLanguage(n) == n.k \in FluxLanguageKinds
InFluxLanguageOrCompiled(n) == n.k \in FluxLanguageKinds \cup {"InternalFlux"}
IntegerExponent(n) == n.k = "Power" => n.s = "int"
AdmissibleExponent(n) == n.k = "Power" => (n.s = "int" /\ n.v >= 0)

\* C9 as stated: a kernel is returned only for expressions built from the
\* eight node kinds of the flux sub-language (with integer powers), and an
\* expression holding any other node kind raises.
C9_ClosedLanguage ==
    /\ pc = "kernel" => AllNodes(optemplate, InFluxLanguage)
    /\ pc = "raised" =>
            ~(AllNodes(optemplate, InFluxLanguage)
                /\ AllNodes(optemplate, IntegerExponent))

\* C9 amended: a kernel is returned exactly for the expressions built from
\* the eight node kinds (with integer powers) and from already compiled
\* kernels (_internal.Flux instances), which are handed back unchanged; an
\* expression holding any other node kind, at any depth, raises.
C9_ClosedLanguageOrCompiled ==
    /\ pc = "kernel" =>
            /\ AllNodes(optemplate, InFluxLanguageOrCompiled)
            /\ AllNodes(optemplate, IntegerExponent)
    /\ pc = "raised" =>
            ~(AllNodes(optemplate, InFluxLanguageOrCompiled)
                /\ AllNodes(optemplate, IntegerExponent))

\* an unsupported node two levels below the root made the compiler raise
C9_Witness ==
    /\ pc = "raised"
    /\ optemplate.k = "Negation"
    /\ optemplate.c[1].k = "Sum"
    /\ optemplate.c[1].c[2].k = "Var"
    /\ result = Raise("ValueError")

\* C10: no kernel is returned for an expression holding a power whose
\* exponent is negative or is not an integer.
C10_ExponentRejected ==
    pc = "kernel" => AllNodes(optemplate, AdmissibleExponent)

(***************************************************************************)
(* Specification SpecFold: CommutativeConstantFoldingMapper applied to a   *)
(* flux operator bound to a BoundaryPair.                                  *)
(***************************************************************************)
Tuples(S, maxlen) == UNION {[1..n -> S] : n \in 1..maxlen}

FoldFields(S, maxlen) == S \cup {ObjArray(t) : t \in Tuples(S, maxlen)}

InitFold ==
    LET FoldBindings ==
            LET FoldVolOperands == {Product(<<Const(0), Const(MaxConst)>>), Var("u")}
                FoldBdryOperands == {Const(0), Var("v")}
                FoldFluxes(nv, nb) ==
                    LET int == {FieldComponent(i, "int") : i \in 0..(nv - 1)}
                        ext == {FieldComponent(j, "ext") : j \in 0..(nb - 1)}
                    IN int \cup ext
                        \cup {Product(<<a, Normal(0)>>) : a \in int}
                        \cup {Sum(<<a, b>>) : a \in int, b \in ext}
                        \cup {Sum(<<Product(<<a, Normal(0)>>),
                                    Product(<<Const(MaxConst), b>>)>>) : a \in int, b \in ext}
            IN
            UNION {
                {OperatorBinding(op, BoundaryPair(vf, bf, "dirichlet")) :
                    op \in {FluxOperator(f), BoundaryFluxOperator(f, "dirichlet")}} :
                <<vf, bf, f>> \in
                    {<<x, y, z>> \in
                        FoldFields(FoldVolOperands, MaxLen)
                            \X FoldFields(FoldBdryOperands, MaxLen - 1)
                            \X FoldFluxes(MaxLen, MaxLen - 1) :
                        \A n \in SubNodes(z) :
                            n.k = "FieldComponent" =>
                                n.v < Len(AsList(IF n.s = "int" THEN x ELSE y))}}
    IN
    /\ pc = "bound"
    /\ optemplate \in FoldBindings
    /\ result = Const(0)
    /\ context = NoContext

\* CommutativeConstantFoldingMapper()(optemplate)
constant_fold ==
    /\ pc = "bound"
    /\ result' = CommutativeConstantFoldingMapper(optemplate)
    /\ pc' = IF IsRaise(result') THEN "raised" ELSE "folded"
    /\ UNCHANGED <<optemplate, context>>

NextFold == constant_fold

SpecFold == InitFold /\ [][NextFold]_vars

\* the folded operands of one side of the bound BoundaryPair
FoldedSide(side) ==
    LET list == AsList(optemplate.c[2].c[IF side = "int" THEN 1 ELSE 2]) IN
    [i \in 1..Len(list) |-> CommutativeConstantFoldingMapper(list[i])]

AllOperandsFoldToZero ==
    \A side \in {"int", "ext"} :
        \A i \in 1..Len(FoldedSide(side)) : is_zero(FoldedSide(side)[i])

NonZeroBefore(side, i) ==
    Cardinality({m \in 1..(i - 1) : ~is_zero(FoldedSide(side)[m])})

\* what a flux leaf has to become
Renumbered(leaf) ==
    IF leaf.k # "FieldComponent" THEN leaf
    ELSE IF is_zero(FoldedSide(leaf.s)[leaf.v + 1]) THEN Const(0)
    ELSE FieldComponent(NonZeroBefore(leaf.s, leaf.v + 1), leaf.s)

RECURSIVE Corresponds(_, _)
Corresponds(old, new) ==
    IF old.c = <<>> THEN new = Renumbered(old)
    ELSE /\ new.k = old.k
         /\ Len(new.c) = Len(old.c)
         /\ \A i \in 1..Len(old.c) : Corresponds(old.c[i], new.c[i])

KeptOperands(side) == SelectSeq(FoldedSide(side), LAMBDA x : ~is_zero(x))

\* C3: in the binding the pass returns, each side holds exactly the operands
\* that did not fold to zero, in their order (so old operand i sits at new
\* index j = number of non-zero operands before i), and every flux reference
\* FieldComponent(i, side) became FieldComponent(j, side), or 0 for a zero
\* operand, each side counted on its own.
C3_Renumbering ==
    (pc = "folded" /\ result.k = "OperatorBinding") =>
        /\ result.c[2].c[1] = ObjArray(KeptOperands("int"))
        /\ result.c[2].c[2] = ObjArray(KeptOperands("ext"))
        /\ result.c[2].s = optemplate.c[2].s
        /\ Corresponds(optemplate.c[1].c[1], result.c[1].c[1])

\* an operand was dropped on each side and later ones moved down
C3_Witness ==
    /\ pc = "folded"
    /\ result.k = "OperatorBinding"
    /\ Len(result.c[2].c[1].c) = 1
    /\ Len(AsList(optemplate.c[2].c[1])) = 3
    /\ is_zero(FoldedSide("int")[1])
    /\ is_zero(FoldedSide("ext")[1])
    /\ Len(result.c[2].c[2].c) = 1
    /\ result.c[1].c[1].k = "Sum"
    /\ optemplate.c[1].c[1].c[1].c[1] = FieldComponent(2, "int")
    /\ optemplate.c[1].c[1].c[2].c[2] = FieldComponent(1, "ext")

(***************************************************************************)
(* OperatorBinder (mappers/__init__.py) over pymbolic's IdentityMapper.    *)
(***************************************************************************)
\* the condition under which map_product warns of an ambiguous binding
map_product_warns(expr) ==
    /\ expr.k = "Product"
    /\ Len(expr.c) > 0
    /\ IsOperator(expr.c[1])
    /\ LET prod == flattened_product(Tail(expr.c))
       IN prod.k = "Product" /\ Len(prod.c) > 1

RECURSIVE OperatorBinder(_)
OperatorBinder(expr) ==
    LET mapped == [i \in 1..Len(expr.c) |-> OperatorBinder(expr.c[i])] IN
    CASE expr.k = "Product" ->
            IF Len(expr.c) = 0 THEN expr
            ELSE LET first == expr.c[1]
                     prod == flattened_product(Tail(expr.c))
                     rest == OperatorBinder(prod)
                 IN IF IsOperator(first)
                    THEN IF IsRaise(rest) THEN rest ELSE OperatorBinding(first, rest)
                    ELSE PyMul(first, rest)
      [] expr.k = "Sum" -> flattened_sum(mapped)
      [] expr.k \in {"OperatorBinding", "BoundaryPair", "ObjArray"} ->
            IF AnyRaise(mapped) THEN FirstRaise(mapped)
            ELSE Node(expr.k, expr.v, expr.s, mapped)
      [] OTHER -> expr

(***************************************************************************)
(* _FluxOpCompileMapper (src/python/discr_precompiled.py) over             *)
(* hedge.optemplate.FluxDecomposer: a flux operator binding becomes the    *)
(* sum, over the operands the flux refers to, of a FluxCoefficientOperator *)
(* holding the compiled interior and exterior coefficient of that operand. *)
(***************************************************************************)
FluxDecomposer_map_flux_binding(op, field) ==
    LET flux == op.c[1]
        FluxTerms == IF flux.k = "Sum" THEN flux.c ELSE <<flux>>
        TermFactors(term) == IF term.k = "Product" THEN term.c ELSE <<term>>
        IsFieldComponent(e) == e.k = "FieldComponent"
        \* the coefficient of FieldComponent(index, side) in the flux
        FluxCoefficientOf(index, side) ==
            LET mine == SelectSeq(FluxTerms,
                            LAMBDA t : \E f \in 1..Len(TermFactors(t)) :
                                TermFactors(t)[f] = FieldComponent(index, side))
                coeff(t) == flattened_product(
                                SelectSeq(TermFactors(t),
                                          LAMBDA f : ~IsFieldComponent(f)))
            IN flattened_sum([t \in 1..Len(mine) |-> coeff(mine[t])])
        \* the flux is a sum of terms, each with exactly one field component
        IsLinearFlux ==
            \A t \in 1..Len(FluxTerms) :
                Cardinality({f \in 1..Len(TermFactors(FluxTerms[t])) :
                    IsFieldComponent(TermFactors(FluxTerms[t])[f])}) = 1
        \* operand number i (0-based) of the bound field, 0 when the side is shorter
        FluxOperand(i) ==
            LET side(x) == IF i < Len(AsList(x)) THEN AsList(x)[i + 1] ELSE Const(0)
            IN IF field.k = "BoundaryPair"
               THEN BoundaryPair(side(field.c[1]), side(field.c[2]), field.s)
               ELSE side(field)
        FluxOperandCount ==
            IF field.k = "BoundaryPair"
            THEN IF Len(AsList(field.c[1])) >= Len(AsList(field.c[2]))
                 THEN Len(AsList(field.c[1])) ELSE Len(AsList(field.c[2]))
            ELSE Len(AsList(field))
        binding(i) ==
            LET int_coeff == FluxCoefficientCompiler(FluxCoefficientOf(i, "int"))
                ext_coeff == FluxCoefficientCompiler(FluxCoefficientOf(i, "ext"))
            IN IF IsRaise(int_coeff) THEN int_coeff
               ELSE IF IsRaise(ext_coeff) THEN ext_coeff
               ELSE OperatorBinding(FluxCoefficientOperator(int_coeff, ext_coeff),
                                    FluxOperand(i))
    IN IF ~IsLinearFlux THEN Raise("ValueError")
       ELSE flattened_sum([i \in 1..FluxOperandCount |-> binding(i - 1)])

RECURSIVE FluxOpCompileMapper(_)
FluxOpCompileMapper(expr) ==
    LET mapped == [i \in 1..Len(expr.c) |-> FluxOpCompileMapper(expr.c[i])] IN
    CASE expr.k = "Sum" -> flattened_sum(mapped)
      [] expr.k = "Product" -> flattened_product(mapped)
      [] expr.k = "OperatorBinding" ->
            IF IsRaise(mapped[2]) THEN mapped[2]
            ELSE IF expr.c[1].k \in FluxOperatorBase
            THEN FluxDecomposer_map_flux_binding(expr.c[1], mapped[2])
            ELSE OperatorBinding(expr.c[1], mapped[2])
      [] expr.k \in {"BoundaryPair", "ObjArray"} ->
            IF AnyRaise(mapped) THEN FirstRaise(mapped)
            ELSE Node(expr.k, expr.v, expr.s, mapped)
      [] OTHER -> expr

(***************************************************************************)
(* Discretization.preprocess_optemplate (src/python/discr_precompiled.py): *)
(* binder, flux compilation, constant folding.  The folder is the          *)
(* CommutativeConstantFoldingMapper with hedge's handlers for operator     *)
(* nodes.  No ErrorChecker takes part.                                     *)
(***************************************************************************)
preprocess_optemplate(tree) ==
    CommutativeConstantFoldingMapper(FluxOpCompileMapper(OperatorBinder(tree)))

(***************************************************************************)
(* ErrorChecker (mappers/__init__.py); mesh_dimensions < 0 stands for a    *)
(* mesh of None.                                                           *)
(***************************************************************************)
RECURSIVE ErrorChecker(_, _)
ErrorChecker(mesh_dimensions, expr) ==
    LET mapped == [i \in 1..Len(expr.c) |-> ErrorChecker(mesh_dimensions, expr.c[i])] IN
    CASE expr.k = "OperatorBinding" ->
            IF /\ expr.c[1].k \in DiffOperatorBase
               /\ mesh_dimensions >= 0
               /\ expr.c[1].v >= mesh_dimensions
            THEN Raise("ValueError")
            ELSE IF IsRaise(mapped[2]) THEN mapped[2]
            ELSE OperatorBinding(expr.c[1], mapped[2])
      [] expr.k = "Normal" ->
            IF mesh_dimensions >= 0 /\ expr.v >= mesh_dimensions
            THEN Raise("ValueError") ELSE expr
      [] expr.k = "Sum" -> flattened_sum(mapped)
      [] expr.k = "Product" -> flattened_product(mapped)
      [] expr.k \in {"BoundaryPair", "ObjArray"} ->
            IF AnyRaise(mapped) THEN FirstRaise(mapped)
            ELSE Node(expr.k, expr.v, expr.s, mapped)
      [] OTHER -> expr

(***************************************************************************)
(* ExecutionMapper (src/python/discr_precompiled.py).  A volume vector is  *)
(* the node Vector(<<Const(x1), ..., Const(xn)>>) over the NumNodes nodes  *)
(* of the discretization; a Python number is a Const.                      *)
(***************************************************************************)
NumNodes == 2
Nodes == 1..NumNodes

Vector(entries) == Node("ndarray", 0, "", entries)
volume_zeros == Vector([i \in Nodes |-> Const(0)])
Broadcast(x) == IF x.k = "Const" THEN Vector([i \in Nodes |-> x]) ELSE x

\* EvaluationMapper.map_sum / map_product: numpy's + and * on numbers and
\* vectors, folded over the children
RECURSIVE VReduce(_, _, _)
VReduce(klass, acc, rest) ==
    LET VAdd(a, b) ==
            IF IsRaise(a) THEN a
            ELSE IF IsRaise(b) THEN b
            ELSE IF a.k = "Const" /\ b.k = "Const" THEN Const(a.v + b.v)
            ELSE Vector([i \in Nodes |->
                    Const(Broadcast(a).c[i].v + Broadcast(b).c[i].v)])
        VMul(a, b) ==
            IF IsRaise(a) THEN a
            ELSE IF IsRaise(b) THEN b
            ELSE IF a.k = "Const" /\ b.k = "Const" THEN Const(a.v * b.v)
            ELSE Vector([i \in Nodes |->
                    Const(Broadcast(a).c[i].v * Broadcast(b).c[i].v)])
    IN IF rest = <<>> THEN acc
       ELSE VReduce(klass,
                IF klass = "Sum" THEN VAdd(acc, Head(rest)) ELSE VMul(acc, Head(rest)),
                Tail(rest))

\* the element-local matrices of the operators, applied to a volume vector:
\* a linear map for each operator class and axis
Succ(i) == (i % NumNodes) + 1

RECURSIVE AlternatingTail(_, _)
AlternatingTail(f, i) ==
    IF i > NumNodes THEN 0 ELSE f.c[i].v - AlternatingTail(f, i + 1)

perform_elwise_operator(op, f) ==
    Vector([i \in Nodes |->
        Const(CASE op.k = "DifferentiationOperator" ->
                        (op.v + 2) * f.c[i].v + f.c[Succ(i)].v
                [] op.k = "StiffnessTOperator" ->
                        (op.v + 2) * f.c[i].v + f.c[((i + NumNodes - 2) % NumNodes) + 1].v
                [] op.k = "MassOperator" ->
                        f.c[i].v + (IF i < NumNodes THEN f.c[i + 1].v ELSE 0)
                [] op.k = "InverseMassOperator" -> AlternatingTail(f, i))])

\* map_diff_base / diff_xyz: op.coefficients(eg)[op.xyz_axis] has one entry
\* for each dimension of the discretization
ExecutionMapper_map_diff_base(op, field, dimensions) ==
    IF IsRaise(field) THEN field
    ELSE IF op.v >= dimensions THEN Raise("IndexError")
    ELSE perform_elwise_operator(op, Broadcast(field))

ExecutionMapper_map_mass_base(op, field) ==
    IF IsRaise(field) THEN field
    ELSE perform_elwise_operator(op, Broadcast(field))

\* a compiled flux kernel (hedge._internal) at one face
RECURSIVE FluxKernelValue(_, _)
FluxKernelValue(kernel, face) ==
    CASE kernel.k = "ConstantFlux" -> kernel.v
      [] kernel.k = "NormalFlux" -> face.normal[kernel.v + 1]
      [] kernel.k = "PenaltyFlux" -> 1
      [] kernel.k = "ChainedFlux" -> FluxKernelValue(kernel.c[1], face)
      [] kernel.k = "SumFlux" ->
            FluxKernelValue(kernel.c[1], face) + FluxKernelValue(kernel.c[2], face)
      [] kernel.k = "ProductFlux" ->
            FluxKernelValue(kernel.c[1], face) * FluxKernelValue(kernel.c[2], face)
      [] kernel.k = "NegativeFlux" -> 0 - FluxKernelValue(kernel.c[1], face)
      [] kernel.k = "IfPositiveFlux" ->
            IF FluxKernelValue(kernel.c[1], face) > 0
            THEN FluxKernelValue(kernel.c[2], face)
            ELSE FluxKernelValue(kernel.c[3], face)

\* hedge._internal.perform_flux over a list of faces: each face adds
\* int_coeff * field(node) + ext_coeff * bfield(opposite node) at its node
RECURSIVE perform_flux_Overwriting(_, _, _, _, _, _)
perform_flux_Overwriting(faces, int_coeff, field, ext_coeff, bfield, out) ==
    IF faces = <<>> THEN out
    ELSE LET face == Head(faces)
             add == FluxKernelValue(int_coeff, face) * field.c[face.node].v
                    + FluxKernelValue(ext_coeff, face) * bfield.c[face.opposite].v
         IN perform_flux_Overwriting(Tail(faces), int_coeff, field, ext_coeff, bfield,
                Vector([i \in Nodes |->
                    IF i = face.node THEN Const(add) ELSE out.c[i]]))

RECURSIVE perform_flux(_, _, _, _, _, _)
perform_flux(faces, int_coeff, field, ext_coeff, bfield, out) ==
    IF faces = <<>> THEN out
    ELSE LET face == Head(faces)
             add == FluxKernelValue(int_coeff, face) * field.c[face.node].v
                    + FluxKernelValue(ext_coeff, face) * bfield.c[face.opposite].v
         IN perform_flux(Tail(faces), int_coeff, field, ext_coeff, bfield,
                Vector([i \in Nodes |->
                    IF i = face.node THEN Const(out.c[i].v + add) ELSE out.c[i]]))

\* Discretization.get_boundary(tag): the faces the mesh lists under the tag
get_boundary(discr, tag) ==
    IF tag \in DOMAIN discr.tag_to_boundary THEN discr.tag_to_boundary[tag] ELSE <<>>

\* line 277: the boundary is looked up under the tag of the BoundaryPair
ExecutionMapper_boundary_tag_Default(bp) == "all"

ExecutionMapper_boundary_tag(bp) == bp.s

ExecutionMapper_scalar_bdry_flux(int_coeff, ext_coeff, field, bfield, tag, discr) ==
    LET bdry == get_boundary(discr, tag) IN
    IF IsRaise(field) THEN field
    ELSE IF IsRaise(bfield) THEN bfield
    ELSE IF bdry = <<>> THEN Const(0)
    ELSE perform_flux(bdry, int_coeff, Broadcast(field), ext_coeff,
                      Broadcast(bfield), volume_zeros)

ExecutionMapper_scalar_inner_flux(int_coeff, ext_coeff, field, discr) ==
    IF IsRaise(field) THEN field
    ELSE perform_flux(discr.face_groups, int_coeff, Broadcast(field), ext_coeff,
                      Broadcast(field), volume_zeros)

RECURSIVE ExecutionMapper(_, _)
ExecutionMapper(expr, discr) ==
    LET mapped == [i \in 1..Len(expr.c) |-> ExecutionMapper(expr.c[i], discr)] IN
    CASE expr.k = "Const" -> expr
      [] expr.k \in {"Var", "ScalarParameter"} ->
            IF expr.s \in DOMAIN discr.vars THEN discr.vars[expr.s]
            ELSE Raise("UnknownVariableError")
      [] expr.k \in {"Sum", "Product"} ->
            IF mapped = <<>> THEN Const(IF expr.k = "Sum" THEN 0 ELSE 1)
            ELSE VReduce(expr.k, Head(mapped), Tail(mapped))
      [] expr.k = "OperatorBinding" ->
            LET op == expr.c[1]
                field_expr == expr.c[2]
            IN CASE op.k \in DiffOperatorBase ->
                        ExecutionMapper_map_diff_base(op, mapped[2], discr.dimensions)
                 [] op.k \in MassOperatorBase ->
                        ExecutionMapper_map_mass_base(op, mapped[2])
                 [] op.k = "FluxCoefficientOperator" ->
                        IF field_expr.k = "BoundaryPair"
                        THEN ExecutionMapper_scalar_bdry_flux(op.c[1], op.c[2],
                                ExecutionMapper(field_expr.c[1], discr),
                                ExecutionMapper(field_expr.c[2], discr),
                                ExecutionMapper_boundary_tag(field_expr), discr)
                        ELSE ExecutionMapper_scalar_inner_flux(op.c[1], op.c[2],
                                mapped[2], discr)
                 [] OTHER -> Raise("AttributeError")
      [] expr.k = "BoundaryPair" ->
            IF AnyRaise(mapped) THEN FirstRaise(mapped)
            ELSE BoundaryPair(mapped[1], mapped[2], expr.s)
      [] expr.k = "Raise" -> expr
      [] OTHER -> Raise("ValueError")

\* run_preprocessed_optemplate: ExecutionMapper(vars, self)(pp_optemplate)
run_preprocessed_optemplate(pp_optemplate, discr) ==
    ExecutionMapper(pp_optemplate, discr)

(***************************************************************************)
(* Specification SpecPipeline: preprocess_optemplate on a raw tree, then   *)
(* either the pipeline again on its own output or the execution of the     *)
(* compiled tree.                                                          *)
(***************************************************************************)
\* interior faces: node i and its neighbour, seen from both sides
InteriorFaces(dimensions) ==
    [f \in 1..(2 * NumNodes) |->
        LET i == ((f - 1) \div 2) + 1 IN
        IF f % 2 = 1
        THEN [node |-> i, opposite |-> Succ(i),
              normal |-> [a \in 1..dimensions |-> IF a = 1 THEN 1 ELSE 0]]
        ELSE [node |-> Succ(i), opposite |-> i,
              normal |-> [a \in 1..dimensions |-> IF a = 1 THEN 0 - 1 ELSE 0]]]

\* one boundary face at a node, with outward normal along the first axis
BoundaryFace(node, dimensions) ==
    [node |-> node, opposite |-> node,
     normal |-> [a \in 1..dimensions |-> IF a = 1 THEN 1 ELSE 0]]

Ramp == Vector([i \in Nodes |-> Const(i)])
Ones == Vector([i \in Nodes |-> Const(1)])

PipelineLeaves == {Var("u"), Var("v"), Const(MaxConst)}

InitPipeline ==
    LET PipelineDiscretizations ==
            {[dimensions |-> d,
              vars |-> ("u" :> Ramp @@ "v" :> Ones),
              tag_to_boundary |-> ("dirichlet" :> <<BoundaryFace(1, d)>>),
              face_groups |-> InteriorFaces(d)] : d \in 1..MaxDim}
        RawTrees ==
            LET PipelineOperators ==
                    {MassOperator} \cup {DifferentiationOperator(a) : a \in Axes}
                PipelineFluxes ==
                    {Sum(<<Product(<<Const(MaxConst), FieldComponent(0, "int")>>),
                           Product(<<Normal(0), FieldComponent(0, "ext")>>)>>),
                     Product(<<Var("u"), FieldComponent(0, "int")>>)}
            IN
            {Product(<<op, x>>) : op \in PipelineOperators, x \in PipelineLeaves}
                \cup {Product(<<Product(<<op, x>>), y>>) :
                        op \in PipelineOperators, x \in PipelineLeaves, y \in PipelineLeaves}
                \cup {Product(<<x, op, y>>) :
                        op \in PipelineOperators, x \in PipelineLeaves, y \in PipelineLeaves}
                \cup {OperatorBinding(op, x) : op \in PipelineOperators, x \in PipelineLeaves}
                \cup {Sum(<<OperatorBinding(op, x), Sum(<<Const(1), y>>)>>) :
                        op \in PipelineOperators, x \in PipelineLeaves, y \in PipelineLeaves}
                \cup {Product(<<FluxOperator(f), x>>) :
                        f \in PipelineFluxes, x \in PipelineLeaves}
                \* a normal component as a factor and below a binding
                \cup {Product(<<BoundaryNormalComponent("dirichlet", a), x>>) :
                        a \in Axes, x \in PipelineLeaves}
                \cup {OperatorBinding(op, Sum(<<BoundaryNormalComponent("dirichlet", a), x>>)) :
                        op \in PipelineOperators, a \in Axes, x \in PipelineLeaves}
                \* op * x * y, op * (x * y) * z and op * (x * y) * Mass * z
                \cup {Product(<<op, x, y>>) :
                        op \in PipelineOperators, x \in PipelineLeaves, y \in PipelineLeaves}
                \cup {Product(<<op, Product(<<x, y>>), z>>) :
                        op \in PipelineOperators, x \in PipelineLeaves,
                        y \in PipelineLeaves, z \in PipelineLeaves}
                \cup {Product(<<op, Product(<<Var("u"), Var("v")>>), MassOperator, z>>) :
                        op \in PipelineOperators, z \in PipelineLeaves}
                \cup {OperatorBinding(BoundaryFluxOperator(f, "dirichlet"),
                                      BoundaryPair(x, y, "dirichlet")) :
                        f \in PipelineFluxes, x \in PipelineLeaves, y \in PipelineLeaves}
    IN
    /\ pc = "raw"
    /\ optemplate \in RawTrees
    /\ result = Const(0)
    /\ context \in PipelineDiscretizations

\* OperatorBinder()(optemplate); the warning of the root product is recorded
bind_operators ==
    /\ pc = "raw"
    /\ result' = OperatorBinder(optemplate)
    /\ pc' = IF IsRaise(result') THEN "raised"
             ELSE IF map_product_warns(optemplate) THEN "bound_warned"
             ELSE "bound"
    /\ UNCHANGED <<optemplate, context>>

\* ErrorChecker(mesh)(optemplate)
check_errors ==
    /\ pc = "raw"
    /\ result' = ErrorChecker(context.dimensions, optemplate)
    /\ pc' = IF IsRaise(result') THEN "check_raised" ELSE "checked"
    /\ UNCHANGED <<optemplate, context>>

\* Discretization.preprocess_optemplate(optemplate)
preprocess ==
    /\ pc = "raw"
    /\ result' = preprocess_optemplate(optemplate)
    /\ pc' = IF IsRaise(result') THEN "raised" ELSE "compiled"
    /\ UNCHANGED <<optemplate, context>>

\* Discretization.preprocess_optemplate on the tree it returned
preprocess_again ==
    /\ pc = "compiled"
    /\ optemplate' = result
    /\ result' = preprocess_optemplate(result)
    /\ pc' = IF IsRaise(result') THEN "raised" ELSE "again"
    /\ UNCHANGED context

\* Discretization.run_preprocessed_optemplate(pp_optemplate, vars)
execute ==
    /\ pc = "compiled"
    /\ result' = run_preprocessed_optemplate(result, context)
    /\ pc' = IF IsRaise(result') THEN "run_raised" ELSE "executed"
    /\ UNCHANGED <<optemplate, context>>

NextPipeline ==
    bind_operators \/ check_errors \/ preprocess \/ preprocess_again \/ execute

SpecPipeline == InitPipeline /\ [][NextPipeline]_vars

\* C1: the pipeline run on its own output returns a tree structurally equal
\* to that output (in state "again" optemplate holds the first output and
\* result the second).
C1_Idempotent ==
    pc = "again" => result = optemplate

\* C15: no product node of the tree the binder returns has a raw operator
\* among its children.
C15_EveryOperatorBound ==
    pc \in {"bound", "bound_warned"} =>
        \A n \in SubNodes(result) :
            n.k = "Product" => \A i \in 1..Len(n.c) : ~IsOperator(n.c[i])

\* the factors of a product and of the products nested in it, left to right
RECURSIVE FlattenInOrder(_)
FlattenInOrder(components) ==
    IF components = <<>> THEN <<>>
    ELSE LET item == Head(components) IN
         (IF item.k = "Product" THEN FlattenInOrder(item.c) ELSE <<item>>)
            \o FlattenInOrder(Tail(components))

IsAmbiguousProduct(n) ==
    n.k = "Product" /\ Len(n.c) > 2 /\ IsOperator(n.c[1])

\* C16: for a product whose first child is a raw operator followed by more
\* than one operand the binder does not raise, warns, and returns the
\* operator bound to the bound form of the flattened product of the
\* remaining operands in their original order.
C16_AmbiguousBindingFlagged ==
    IsAmbiguousProduct(optemplate) =>
        /\ pc # "raised"
        /\ pc # "bound"
        /\ pc = "bound_warned" =>
                result = OperatorBinding(optemplate.c[1],
                            OperatorBinder(Product(FlattenInOrder(Tail(optemplate.c)))))

\* C22: the ErrorChecker returns no tree that holds a BoundaryNormalComponent
\* whose axis is not below the dimension of the mesh.
C22_NormalAxisChecked ==
    pc = "checked" =>
        \A n \in SubNodes(optemplate) :
            n.k = "BoundaryNormalComponent" => n.v < context.dimensions

IsDiffBinding(n) == n.k = "OperatorBinding" /\ n.c[1].k \in DiffOperatorBase

\* C7: a tree holding, at any depth, a binding of a differentiation-base
\* operator whose axis is not below the dimension of the mesh is never
\* compiled: preprocess_optemplate raises for it.
C7_AxisRejectedAtCompileTime ==
    pc = "compiled" =>
        \A n \in SubNodes(optemplate) :
            IsDiffBinding(n) => n.c[1].v < context.dimensions

(***************************************************************************)
(* DerivativeJoiner and _InnerDerivativeJoiner (mappers/__init__.py).      *)
(* The dictionary derivatives (operator -> list of operands) is the        *)
(* sequence of its [operator, operand] entries in the order of insertion.  *)
(***************************************************************************)
\* Operator.__call__: an operator applied to the literal 0 is 0
Operator_call(op, field) ==
    IF IsRaise(field) THEN field
    ELSE IF is_zero(field) THEN field
    ELSE OperatorBinding(op, field)

\* Python's sum(...): 0 + x1 + x2 + ...
RECURSIVE PySum(_, _)
PySum(acc, rest) ==
    IF rest = <<>> THEN acc ELSE PySum(PyAdd(acc, Head(rest)), Tail(rest))

RECURSIVE ConcatAll(_)
ConcatAll(seqs) == IF seqs = <<>> THEN <<>> ELSE Head(seqs) \o ConcatAll(Tail(seqs))

\* the keys of derivatives, each once
RECURSIVE DerivativeOperators(_, _)
DerivativeOperators(derivatives, seen) ==
    IF derivatives = <<>> THEN seen
    ELSE DerivativeOperators(Tail(derivatives),
            IF \E i \in 1..Len(seen) : seen[i] = Head(derivatives).operator
            THEN seen ELSE Append(seen, Head(derivatives).operator))

\* derivatives[operator]
DerivativeOperands(derivatives, operator) ==
    LET mine == SelectSeq(derivatives, LAMBDA d : d.operator = operator) IN
    [i \in 1..Len(mine) |-> mine[i].operand]

is_scalar_Never(expr) == FALSE

is_scalar(expr) == expr.k \in {"Const", "ScalarParameter"}

\* line 982: the operand of a derivative found below a scalar factor
InnerDerivativeJoiner_scaled_operand_Unscaled(factor, operand) == operand

InnerDerivativeJoiner_scaled_operand(factor, operand) == PyMul(factor, operand)

RECURSIVE DerivativeJoiner(_)
RECURSIVE InnerDerivativeJoiner(_)

\* [result, derivatives]: the value returned and the entries added
InnerDerivativeJoiner(expr) ==
    LET outer == [result |-> DerivativeJoiner(expr), derivatives |-> <<>>] IN
    CASE expr.k = "OperatorBinding" ->
            IF expr.c[1].k = "DifferentiationOperator"
            THEN [result |-> Const(0),
                  derivatives |-> <<[operator |-> expr.c[1], operand |-> expr.c[2]]>>]
            ELSE outer
      [] expr.k = "Sum" ->
            LET sub == [i \in 1..Len(expr.c) |-> InnerDerivativeJoiner(expr.c[i])] IN
            [result |-> flattened_sum([i \in 1..Len(sub) |-> sub[i].result]),
             derivatives |-> ConcatAll([i \in 1..Len(sub) |-> sub[i].derivatives])]
      [] expr.k = "Product" ->
            LET scalars == SelectSeq(expr.c, is_scalar)
                nonscalars == SelectSeq(expr.c, LAMBDA x : ~is_scalar(x))
            IN IF Len(nonscalars) # 1 THEN outer
               ELSE LET factor == flattened_product(scalars)
                        sub == InnerDerivativeJoiner(nonscalars[1])
                    IN [result |-> PyMul(factor, sub.result),
                        derivatives |->
                            [i \in 1..Len(sub.derivatives) |->
                                [operator |-> sub.derivatives[i].operator,
                                 operand |-> InnerDerivativeJoiner_scaled_operand(
                                                factor, sub.derivatives[i].operand)]]]
      [] OTHER -> outer

\* the bindings inserted at the front of new_children, one for each operator
RECURSIVE JoinedChildren(_, _, _)
JoinedChildren(operators, derivatives, new_children) ==
    IF operators = <<>> THEN new_children
    ELSE LET operands == DerivativeOperands(derivatives, Head(operators))
             joined == Operator_call(Head(operators),
                            PySum(Const(0),
                                  [i \in 1..Len(operands) |->
                                        DerivativeJoiner(operands[i])]))
         IN JoinedChildren(Tail(operators), derivatives, <<joined>> \o new_children)

DerivativeJoiner(expr) ==
    LET mapped == [i \in 1..Len(expr.c) |-> DerivativeJoiner(expr.c[i])] IN
    CASE expr.k = "Sum" ->
            LET idj == [i \in 1..Len(expr.c) |-> InnerDerivativeJoiner(expr.c[i])]
                invoke_idj(i) ==
                    IF idj[i].derivatives = <<>> THEN expr.c[i] ELSE idj[i].result
                derivatives == ConcatAll([i \in 1..Len(idj) |-> idj[i].derivatives])
                new_children == [i \in 1..Len(expr.c) |-> invoke_idj(i)]
            IN flattened_sum(JoinedChildren(DerivativeOperators(derivatives, <<>>),
                                            derivatives, new_children))
      [] expr.k = "Product" -> flattened_product(mapped)
      [] expr.k \in {"OperatorBinding", "BoundaryPair", "ObjArray"} ->
            IF AnyRaise(mapped) THEN FirstRaise(mapped)
            ELSE Node(expr.k, expr.v, expr.s, mapped)
      [] OTHER -> expr

(***************************************************************************)
(* Specification SpecJoin: DerivativeJoiner applied to a sum, whose input  *)
(* and output are evaluated on the same field values.                      *)
(***************************************************************************)
InitJoin ==
    LET \* sums of two terms (derivatives, plain operands, other bindings, scaled
        \* and nested-scaled derivatives, products with two non-scalars) and sums of
        \* three derivatives
        JoinSums ==
            LET JoinOperands == {Var("u"), Var("v")}
                JoinScalars == {Const(MaxConst), ScalarParameter("s")}
                JoinDerivatives ==
                    {OperatorBinding(DifferentiationOperator(k), a) :
                        k \in Axes, a \in JoinOperands}
                \* a sum of two derivatives along one axis, to stand below a
                \* term of the outer sum
                JoinNestedSum ==
                    Sum(<<OperatorBinding(DifferentiationOperator(MaxAxis), Var("u")),
                          OperatorBinding(DifferentiationOperator(MaxAxis), Var("v"))>>)
                JoinTerms ==
                    JoinDerivatives
                        \cup JoinOperands
                        \cup {OperatorBinding(StiffnessTOperator(0), a) : a \in JoinOperands}
                        \cup {Product(<<s, d>>) : s \in JoinScalars, d \in JoinDerivatives}
                        \cup {Product(<<Const(MaxConst), ScalarParameter("s"), d>>) :
                                d \in JoinDerivatives}
                        \cup {Product(<<a, d>>) : a \in {Var("u")}, d \in JoinDerivatives}
                        \cup {Product(<<s, Sum(<<d, a>>)>>) :
                                s \in JoinScalars, d \in JoinDerivatives, a \in {Var("v")}}
                        \cup {Product(<<Const(MaxConst),
                                        Product(<<ScalarParameter("s"), d>>)>>) :
                                d \in JoinDerivatives}
                        \cup {OperatorBinding(StiffnessTOperator(0), JoinNestedSum),
                              Product(<<Var("u"), JoinNestedSum>>)}
            IN
            {Sum(<<a, b>>) : a \in JoinTerms, b \in JoinTerms}
                \cup {Sum(<<a, b, c>>) : a \in JoinDerivatives, b \in JoinDerivatives,
                                          c \in JoinDerivatives}
        JoinDiscretizations ==
            {[dimensions |-> MaxAxis + 1,
              vars |-> ("u" :> Ramp @@ "v" :> Vector([i \in Nodes |-> Const(x)])
                            @@ "s" :> Const(MaxConst + 1)),
              tag_to_boundary |-> ("dirichlet" :> <<>>),
              face_groups |-> InteriorFaces(MaxAxis + 1)] : x \in 0..MaxValue}
    IN
    /\ pc = "sum"
    /\ optemplate \in JoinSums
    /\ result = Const(0)
    /\ context \in JoinDiscretizations

\* DerivativeJoiner()(optemplate)
join_derivatives ==
    /\ pc = "sum"
    /\ result' = DerivativeJoiner(optemplate)
    /\ pc' = IF IsRaise(result') THEN "raised" ELSE "joined"
    /\ UNCHANGED <<optemplate, context>>

NextJoin == join_derivatives

SpecJoin == InitJoin /\ [][NextJoin]_vars

\* C4: the joined sum evaluates, with D_k a linear map and on the same field
\* values, to the value of the input sum: no term is lost or duplicated and
\* no scalar factor is dropped.
C4_JoinPreservesValue ==
    pc = "joined" =>
        /\ ~IsRaise(ExecutionMapper(optemplate, context))
        /\ Broadcast(ExecutionMapper(result, context))
                = Broadcast(ExecutionMapper(optemplate, context))

\* a sum whose terms are all bindings of differentiation-base operators
IsSumOfDerivatives(n) ==
    /\ n.k = "Sum"
    /\ \A i \in 1..Len(n.c) :
            n.c[i].k = "OperatorBinding" /\ n.c[i].c[1].k \in DiffOperatorBase

\* the terms of the joined sum that are not the number zero
JoinedTerms ==
    SelectSeq(IF result.k = "Sum" THEN result.c ELSE <<result>>, LAMBDA t : ~is_zero(t))

\* the operands the input sum binds to an operator, in their order
OperandsOf(operator) ==
    LET mine == SelectSeq(optemplate.c, LAMBDA t : t.c[1] = operator)
    IN [i \in 1..Len(mine) |-> mine[i].c[2]]

\* C21: a sum of bindings of one differentiation-base operator (same kind,
\* same axis) is joined into one binding of that operator applied to the sum
\* of the operands; in a sum of bindings of several such operators every
\* binding of the output holds the operands of its own operator only.
C21_JoinedByAxisAndKind ==
    (pc = "joined" /\ IsSumOfDerivatives(optemplate)) =>
        /\ (\A i \in 1..Len(optemplate.c) : optemplate.c[i].c[1] = optemplate.c[1].c[1])
                => JoinedTerms = <<OperatorBinding(optemplate.c[1].c[1],
                                        Sum(OperandsOf(optemplate.c[1].c[1])))>>
        /\ \A i \in 1..Len(JoinedTerms) :
                /\ JoinedTerms[i].k = "OperatorBinding"
                /\ LET operands == OperandsOf(JoinedTerms[i].c[1]) IN
                   JoinedTerms[i].c[2] =
                        IF Len(operands) = 1 THEN operands[1] ELSE Sum(operands)

\* a sum with two direct-child bindings of one Differentiation operator
HasUnjoinedDerivatives(n) ==
    /\ n.k = "Sum"
    /\ \E i, j \in 1..Len(n.c) :
            /\ i < j
            /\ n.c[i].k = "OperatorBinding"
            /\ n.c[i].c[1].k = "DifferentiationOperator"
            /\ n.c[j].k = "OperatorBinding"
            /\ n.c[j].c[1] = n.c[i].c[1]

\* C29: in the tree the joiner returns no sum, at any depth, has two
\* direct-child bindings of the same Differentiation operator.
C29_NoUnjoinedDerivatives ==
    pc = "joined" => \A n \in SubNodes(result) : ~HasUnjoinedDerivatives(n)

\* two scaled derivatives along the same axis were joined into one binding
C4_Witness ==
    /\ pc = "joined"
    /\ optemplate.c[1].k = "Product"
    /\ optemplate.c[2].k = "Product"
    /\ Len(optemplate.c) = 2
    /\ result.k = "Sum"
    /\ result.c[1] =
            OperatorBinding(DifferentiationOperator(MaxAxis),
                Sum(<<Product(<<ScalarParameter("s"), Var("u")>>),
                      Product(<<Const(MaxConst), Var("v")>>)>>))
    /\ result.c[2] = Const(0)
    /\ result.c[3] = Const(0)
    /\ context.vars["v"] # volume_zeros

(***************************************************************************)
(* EmptyFluxKiller (mappers/__init__.py).                                  *)
(***************************************************************************)
tag_to_boundary_get_Empty(mesh, tag) == <<>>

\* self.mesh.tag_to_boundary.get(tag, [])
tag_to_boundary_get(mesh, tag) ==
    IF tag \in DOMAIN mesh.tag_to_boundary THEN mesh.tag_to_boundary[tag] ELSE <<>>

RECURSIVE EmptyFluxKiller(_, _)
EmptyFluxKiller(mesh, expr) ==
    LET mapped == [i \in 1..Len(expr.c) |-> EmptyFluxKiller(mesh, expr.c[i])] IN
    CASE expr.k = "OperatorBinding" ->
            IF /\ expr.c[1].k \in BoundaryFluxOperatorBase
               /\ Len(tag_to_boundary_get(mesh, expr.c[1].s)) = 0
            THEN Const(0)
            ELSE IF IsRaise(mapped[2]) THEN mapped[2]
            ELSE OperatorBinding(expr.c[1], mapped[2])
      [] expr.k = "Sum" -> flattened_sum(mapped)
      [] expr.k = "Product" -> flattened_product(mapped)
      [] expr.k \in {"BoundaryPair", "ObjArray"} ->
            IF AnyRaise(mapped) THEN FirstRaise(mapped)
            ELSE Node(expr.k, expr.v, expr.s, mapped)
      [] OTHER -> expr

(***************************************************************************)
(* Specification SpecEmptyFlux: a boundary flux binding is executed as it  *)
(* is, and executed after the EmptyFluxKiller has run over it.             *)
(***************************************************************************)
InitEmptyFlux ==
    LET \* meshes that list, under each of the two tags, no face, one face or two
        \* faces, or do not list the tag at all (NoFaces); "all" holds every face
        EmptyFluxDiscretizations ==
            LET NoFaces == <<[node |-> 0, opposite |-> 0, normal |-> <<>>]>>
                BoundaryFaceLists ==
                    {NoFaces, <<>>, <<BoundaryFace(1, MaxDim)>>,
                     <<BoundaryFace(1, MaxDim), BoundaryFace(NumNodes, MaxDim)>>}
                Listed(faces) == IF faces = NoFaces THEN <<>> ELSE faces
                MeshBoundaries(dirichlet, neumann) ==
                    LET all == "all" :> (Listed(dirichlet) \o Listed(neumann))
                        d == IF dirichlet = NoFaces THEN all
                             ELSE ("dirichlet" :> dirichlet) @@ all
                    IN IF neumann = NoFaces THEN d ELSE ("neumann" :> neumann) @@ d
            IN {[dimensions |-> MaxDim,
                 vars |-> ("u" :> Ramp @@ "v" :> Ones),
                 tag_to_boundary |-> MeshBoundaries(d, n),
                 face_groups |-> InteriorFaces(MaxDim)] :
                    d \in BoundaryFaceLists, n \in BoundaryFaceLists}
        \* line 383: the specializer builds BoundaryFluxOperator(flux, bpair.tag)
        BoundaryFluxBindings ==
            LET EmptyFluxFluxes ==
                    {Sum(<<Product(<<Const(MaxConst), FieldComponent(0, "int")>>),
                           Product(<<Normal(0), FieldComponent(0, "ext")>>)>>),
                     FieldComponent(0, "ext"),
                     Product(<<Const(MaxConst), Normal(0), FieldComponent(0, "int")>>)}
            IN
            {OperatorBinding(BoundaryFluxOperator(f, tag), BoundaryPair(x, y, tag)) :
                f \in EmptyFluxFluxes, tag \in Tags, x \in PipelineLeaves, y \in PipelineLeaves}
        \* bindings of other operators: an interior flux, and an elementwise
        \* operator over a boundary flux binding
        OtherBindings ==
            {OperatorBinding(FluxOperator(FieldComponent(0, "ext")), x) : x \in PipelineLeaves}
            \cup {OperatorBinding(op, b) :
                    op \in {MassOperator, InverseMassOperator},
                    b \in {c \in BoundaryFluxBindings :
                            /\ c.c[1].c[1] = FieldComponent(0, "ext")
                            /\ c.c[2].c[1] = Var("u")}}
    IN
    /\ pc = "bound"
    /\ optemplate \in BoundaryFluxBindings \cup OtherBindings
    /\ result = Const(0)
    /\ context \in EmptyFluxDiscretizations

\* the binding is compiled and executed, the EmptyFluxKiller not having run
execute_binding ==
    /\ pc = "bound"
    /\ result' = run_preprocessed_optemplate(FluxOpCompileMapper(optemplate), context)
    /\ pc' = IF IsRaise(result') THEN "run_raised" ELSE "executed"
    /\ UNCHANGED <<optemplate, context>>

\* EmptyFluxKiller(mesh)(optemplate)
kill_empty_fluxes ==
    /\ pc = "bound"
    /\ result' = EmptyFluxKiller(context, optemplate)
    /\ pc' = IF IsRaise(result') THEN "raised" ELSE "killed"
    /\ UNCHANGED <<optemplate, context>>

\* the tree the EmptyFluxKiller returned is compiled and executed
execute_killed ==
    /\ pc = "killed"
    /\ result' = run_preprocessed_optemplate(FluxOpCompileMapper(result), context)
    /\ pc' = IF IsRaise(result') THEN "run_raised" ELSE "executed_killed"
    /\ UNCHANGED <<optemplate, context>>

NextEmptyFlux == execute_binding \/ kill_empty_fluxes \/ execute_killed

SpecEmptyFlux == InitEmptyFlux /\ [][NextEmptyFlux]_vars

TagHasNoFaces ==
    /\ optemplate.c[1].k \in BoundaryFluxOperatorBase
    /\ tag_to_boundary_get(context, optemplate.c[1].s) = <<>>

\* a value that is zero at every node (the number 0 stands for such a vector)
IsZeroValue(x) == ~IsRaise(x) /\ Broadcast(x) = volume_zeros

\* C5: for a boundary flux binding whose tag has no faces in the mesh, the
\* execution without the EmptyFluxKiller gives zero, the execution of the
\* tree the EmptyFluxKiller returned gives zero, and the two agree.
C5_EmptyTagGivesZero ==
    TagHasNoFaces =>
        /\ pc # "run_raised"
        /\ pc = "executed" => IsZeroValue(result)
        /\ pc = "executed_killed" =>
                /\ IsZeroValue(result)
                /\ Broadcast(result) =
                        Broadcast(run_preprocessed_optemplate(
                                    FluxOpCompileMapper(optemplate), context))

\* a binding over a tag without faces was executed on a mesh that has faces
\* under the other tag, with a field that is not zero
C5_Witness ==
    /\ pc = "executed"
    /\ TagHasNoFaces
    /\ optemplate.c[1].s = "neumann"
    /\ Len(tag_to_boundary_get(context, "dirichlet")) = 2
    /\ optemplate.c[2].c[1] = Var("u")
    /\ optemplate.c[2].c[2] = Var("v")
    /\ optemplate.c[1].c[1].k = "Sum"

\* the mesh does not define the tag of the boundary flux binding
TagIsUndefined ==
    /\ optemplate.c[1].k \in BoundaryFluxOperatorBase
    /\ optemplate.c[1].s \notin DOMAIN context.tag_to_boundary

\* C13: when a boundary flux binding names a tag the mesh does not define,
\* neither the EmptyFluxKiller nor the execution returns a value (zero or
\* any other): each of them ends in an error.
C13_UndefinedTagIsError ==
    TagIsUndefined => pc \notin {"killed", "executed", "executed_killed"}

\* a boundary flux binding under whose tag the mesh has no boundary face
IsDeadFlux(binding) ==
    /\ binding.k = "OperatorBinding"
    /\ binding.c[1].k \in BoundaryFluxOperatorBase
    /\ \/ binding.c[1].s \notin DOMAIN context.tag_to_boundary
       \/ Len(context.tag_to_boundary[binding.c[1].s]) = 0

\* C19: the EmptyFluxKiller returns the structural zero for a binding exactly
\* when its operator is a boundary flux operator whose tag has no boundary
\* face in the mesh; every other binding comes back with the same operator
\* and with its operand rewritten by the same rule.
C19_DeadFluxExact ==
    /\ pc # "raised"
    /\ pc = "killed" =>
        /\ result = Const(0) <=> IsDeadFlux(optemplate)
        /\ ~IsDeadFlux(optemplate) =>
            /\ result.k = "OperatorBinding"
            /\ result.c[1] = optemplate.c[1]
            /\ result.c[2] = IF IsDeadFlux(optemplate.c[2]) THEN Const(0)
                             ELSE optemplate.c[2]

\* a boundary flux binding whose tag has a face is kept, and so is an
\* elementwise operator whose operand is a dead boundary flux binding
C19_Witness ==
    /\ pc = "killed"
    /\ optemplate.c[1] = InverseMassOperator
    /\ IsDeadFlux(optemplate.c[2])
    /\ result = OperatorBinding(InverseMassOperator, Const(0))
    /\ Len(tag_to_boundary_get(context, "dirichlet")) = 1

(***************************************************************************)
(* BCToFluxRewriter (mappers/__init__.py).                                 *)
(***************************************************************************)
\* dict((vol_expr, idx) for idx, vol_expr in enumerate(vol_expr_list)):
\* of two equal entries the later index stays
DictFromList(list) ==
    [x \in {list[i] : i \in 1..Len(list)} |->
        (CHOOSE i \in 1..Len(list) :
            list[i] = x /\ \A j \in 1..Len(list) : list[j] = x => j <= i) - 1]

\* MaxBoundaryFluxEvaluableExpressionFinder.__init__
MaxBoundaryFluxEvaluableExpressionFinder_init(vol_expr_list) ==
    [vol_expr_list |-> vol_expr_list,
     vol_expr_to_idx |-> DictFromList(vol_expr_list),
     bdry_expr_list |-> <<>>,
     bdry_expr_to_idx |-> DictFromList(<<>>)]

\* idx = len(self.vol_expr_to_idx)
register_volume_expr_new_idx(self) == Cardinality(DOMAIN self.vol_expr_to_idx)

\* [self, idx]: the finder after the call and the index returned
register_volume_expr(self, expr) ==
    IF expr \in DOMAIN self.vol_expr_to_idx
    THEN [self |-> self, idx |-> self.vol_expr_to_idx[expr]]
    ELSE LET idx == register_volume_expr_new_idx(self) IN
         [self |-> [self EXCEPT
                        !.vol_expr_to_idx = (expr :> idx) @@ self.vol_expr_to_idx,
                        !.vol_expr_list = Append(self.vol_expr_list, expr)],
          idx |-> idx]

register_boundary_expr(self, expr) ==
    IF expr \in DOMAIN self.bdry_expr_to_idx
    THEN [self |-> self, idx |-> self.bdry_expr_to_idx[expr]]
    ELSE LET idx == Cardinality(DOMAIN self.bdry_expr_to_idx) IN
         [self |-> [self EXCEPT
                        !.bdry_expr_to_idx = (expr :> idx) @@ self.bdry_expr_to_idx,
                        !.bdry_expr_list = Append(self.bdry_expr_list, expr)],
          idx |-> idx]

RECURSIVE MaxBoundaryFluxEvaluableExpressionFinder(_, _, _)
RECURSIVE MaxBoundaryFluxEvaluableExpressionFinder_children(_, _, _, _)

\* [self, result]: the finder after the call and the mapped expression
MaxBoundaryFluxEvaluableExpressionFinder(self, bpair, expr) ==
    CASE expr.k = "Var" ->
            LET reg == register_boundary_expr(self, expr) IN
            [self |-> reg.self, result |-> FieldComponent(reg.idx, "ext")]
      [] expr.k = "Normal" ->
            [self |-> self, result |-> Raise("RuntimeError: flux normal")]
      [] expr.k = "BoundaryNormalComponent" ->
            \* line 738 reads expr.tag, which BoundaryNormalComponent does not have
            [self |-> self, result |-> Raise("AttributeError")]
      [] expr.k = "OperatorBinding" ->
            IF expr.c[1].k = "BoundarizeOperator"
            THEN IF expr.c[1].s # bpair.s
                 THEN [self |-> self, result |-> Raise("RuntimeError: boundary tag")]
                 ELSE LET reg == register_volume_expr(self, expr.c[2]) IN
                      [self |-> reg.self, result |-> FieldComponent(reg.idx, "int")]
            ELSE [self |-> self, result |-> Raise("RuntimeError: operator on boundary data")]
      [] expr.k \in {"Sum", "Product", "ObjArray"} ->
            LET sub == MaxBoundaryFluxEvaluableExpressionFinder_children(
                            self, bpair, expr.c, <<>>)
            IN [self |-> sub.self,
                result |-> IF expr.k = "Sum" THEN flattened_sum(sub.result)
                           ELSE IF expr.k = "Product" THEN flattened_product(sub.result)
                           ELSE IF AnyRaise(sub.result) THEN FirstRaise(sub.result)
                           ELSE ObjArray(sub.result)]
      [] OTHER -> [self |-> self, result |-> expr]

MaxBoundaryFluxEvaluableExpressionFinder_children(self, bpair, children, done) ==
    IF children = <<>> THEN [self |-> self, result |-> done]
    ELSE LET first == MaxBoundaryFluxEvaluableExpressionFinder(self, bpair,
                                                                Head(children))
         IN MaxBoundaryFluxEvaluableExpressionFinder_children(
                first.self, bpair, Tail(children), Append(done, first.result))

\* sub_bdry_into_flux for every exterior field component of the flux
sub_bdry_into_flux(flux, bdry_field, new_bdry_field) ==
    [fc \in {n \in SubNodes(flux) : n.k = "FieldComponent" /\ n.s = "ext"} |->
        IF fc.v = 0 /\ bdry_field.k # "ObjArray" THEN new_bdry_field
        ELSE IF new_bdry_field.k # "ObjArray"
        THEN Node("Subscript", fc.v, "", <<new_bdry_field>>)
        ELSE IF fc.v < Len(new_bdry_field.c) THEN new_bdry_field.c[fc.v + 1]
        ELSE Raise("IndexError")]

\* line 693: bdry_dependencies & vol_dependencies
vol_bdry_intersection_Ignored(bdry_dependencies, vol_dependencies) == {}

vol_bdry_intersection(bdry_dependencies, vol_dependencies) ==
    bdry_dependencies \cap vol_dependencies

RECURSIVE BCToFluxRewriter(_)
BCToFluxRewriter(expr) ==
    LET mapped == [i \in 1..Len(expr.c) |-> BCToFluxRewriter(expr.c[i])] IN
    CASE expr.k = "OperatorBinding" ->
            IF ~(expr.c[1].k \in BoundaryFluxOperatorBase
                    /\ expr.c[2].k = "BoundaryPair")
            THEN IF IsRaise(mapped[2]) THEN mapped[2]
                 ELSE OperatorBinding(expr.c[1], mapped[2])
            ELSE LET bpair == expr.c[2]
                     vol_field == bpair.c[1]
                     bdry_field == bpair.c[2]
                     flux == expr.c[1].c[1]
                     bdry_dependencies == DependencyMapper(bdry_field, TRUE)
                     vol_dependencies == DependencyMapper(vol_field, TRUE)
                     mbfeef == MaxBoundaryFluxEvaluableExpressionFinder(
                                    MaxBoundaryFluxEvaluableExpressionFinder_init(
                                        AsList(vol_field)),
                                    bpair, bdry_field)
                     new_bdry_field == mbfeef.result
                     new_flux == FluxSubstitutionMapper(
                                    sub_bdry_into_flux(flux, bdry_field, new_bdry_field),
                                    flux)
                     new_vol == [i \in 1..Len(mbfeef.self.vol_expr_list) |->
                                    BCToFluxRewriter(mbfeef.self.vol_expr_list[i])]
                     new_bdry == [i \in 1..Len(mbfeef.self.bdry_expr_list) |->
                                    BCToFluxRewriter(mbfeef.self.bdry_expr_list[i])]
                 IN IF vol_bdry_intersection(bdry_dependencies, vol_dependencies) # {}
                    THEN Raise("RuntimeError: both boundary and volume")
                    ELSE IF IsRaise(new_bdry_field) THEN new_bdry_field
                    ELSE IF IsRaise(new_flux) THEN new_flux
                    ELSE IF is_zero(new_flux) THEN Const(0)
                    ELSE IF AnyRaise(new_vol) THEN FirstRaise(new_vol)
                    ELSE IF AnyRaise(new_bdry) THEN FirstRaise(new_bdry)
                    ELSE OperatorBinding(
                            WithFlux(expr.c[1], new_flux),
                            BoundaryPair(make_obj_array(new_vol),
                                         make_obj_array(new_bdry), bpair.s))
      [] expr.k = "Sum" -> flattened_sum(mapped)
      [] expr.k = "Product" -> flattened_product(mapped)
      [] expr.k \in {"BoundaryPair", "ObjArray"} ->
            IF AnyRaise(mapped) THEN FirstRaise(mapped)
            ELSE Node(expr.k, expr.v, expr.s, mapped)
      [] OTHER -> expr

(***************************************************************************)
(* The value of a boundary flux binding at one face-node pair: env gives   *)
(* the value of every volume variable (its trace at the node) and of every *)
(* boundary variable.                                                      *)
(***************************************************************************)
RECURSIVE FaceValue(_, _)
FaceValue(expr, env) ==
    CASE expr.k = "Const" -> expr.v
      [] expr.k \in {"Var", "ScalarParameter"} -> env[expr.s]
      [] expr.k = "OperatorBinding" -> FaceValue(expr.c[2], env)
      [] expr.k = "BoundaryNormalComponent" -> env["normal"]
      [] expr.k = "Sum" ->
            IF expr.c = <<>> THEN 0
            ELSE FaceValue(Head(expr.c), env) + FaceValue(Sum(Tail(expr.c)), env)
      [] expr.k = "Product" ->
            IF expr.c = <<>> THEN 1
            ELSE FaceValue(Head(expr.c), env) * FaceValue(Product(Tail(expr.c)), env)

RECURSIVE FluxValue(_, _, _, _)
FluxValue(flux, int, ext, env) ==
    CASE flux.k = "Const" -> flux.v
      [] flux.k = "FieldComponent" ->
            IF flux.s = "int" THEN FaceValue(int[flux.v + 1], env)
            ELSE FaceValue(ext[flux.v + 1], env)
      [] flux.k = "Normal" -> env["normal"]
      [] flux.k = "ScalarParameter" -> env[flux.s]
      [] flux.k = "Sum" ->
            IF flux.c = <<>> THEN 0
            ELSE FluxValue(Head(flux.c), int, ext, env)
                    + FluxValue(Sum(Tail(flux.c)), int, ext, env)
      [] flux.k = "Product" ->
            IF flux.c = <<>> THEN 1
            ELSE FluxValue(Head(flux.c), int, ext, env)
                    * FluxValue(Product(Tail(flux.c)), int, ext, env)

\* a flux operator bound to a BoundaryPair; the literal 0 has the value 0
BindingValue(binding, env) ==
    IF binding.k = "Const" THEN binding.v
    ELSE FluxValue(binding.c[1].c[1],
                   AsList(binding.c[2].c[1]), AsList(binding.c[2].c[2]), env)

(***************************************************************************)
(* Specification SpecBCToFlux: BCToFluxRewriter applied to a boundary flux *)
(* operator bound to a BoundaryPair.                                       *)
(***************************************************************************)
InitBCToFlux ==
    LET BCBindings ==
            LET BCVolOperands == {Var("u"), Var("v")}
                BCBdryAtoms ==
                    {Var("g"), Var("u"), Const(1),
                     OperatorBinding(BoundarizeOperator("dirichlet"), Var("u")),
                     OperatorBinding(BoundarizeOperator("dirichlet"), Var("v")),
                     OperatorBinding(BoundarizeOperator("neumann"), Var("v")),
                     OperatorBinding(MassOperator, Var("g"))}
                BCBdryOperands ==
                    BCBdryAtoms
                        \cup {Sum(<<a, b>>) : a \in BCBdryAtoms, b \in BCBdryAtoms}
                        \cup {Product(<<Const(MaxConst), a>>) : a \in BCBdryAtoms}
                BCFluxes(nv, nb) ==
                    LET int == {FieldComponent(i, "int") : i \in 0..(nv - 1)}
                        ext == {FieldComponent(j, "ext") : j \in 0..(nb - 1)}
                    IN ext
                        \cup {Sum(<<a, b>>) : a \in int, b \in ext}
                        \cup {Sum(<<Product(<<Normal(0), a>>),
                                    Product(<<Const(MaxConst), b>>)>>) : a \in int, b \in ext}
            IN
            UNION {
                {OperatorBinding(BoundaryFluxOperator(f, "dirichlet"),
                                 BoundaryPair(vf, bf, "dirichlet"))} :
                <<vf, bf, f>> \in
                    {<<x, y, z>> \in
                        FoldFields(BCVolOperands, MaxLen - 1)
                            \X (BCBdryOperands
                                    \cup {ObjArray(t) : t \in Tuples(BCBdryAtoms, MaxLen - 1)})
                            \X BCFluxes(MaxLen - 1, MaxLen - 1) :
                        \A n \in SubNodes(z) :
                            n.k = "FieldComponent" =>
                                n.v < Len(AsList(IF n.s = "int" THEN x ELSE y))}}
    IN
    /\ pc = "bound"
    /\ optemplate \in BCBindings
    /\ result = Const(0)
    /\ context = NoContext

\* BCToFluxRewriter()(optemplate)
rewrite_bc_to_flux ==
    /\ pc = "bound"
    /\ result' = BCToFluxRewriter(optemplate)
    /\ pc' = IF IsRaise(result') THEN "raised" ELSE "rewritten"
    /\ UNCHANGED <<optemplate, context>>

NextBCToFlux == rewrite_bc_to_flux

SpecBCToFlux == InitBCToFlux /\ [][NextBCToFlux]_vars

FaceEnvironments == [{"u", "v", "g", "normal"} -> 0..(MaxValue + 1)]

\* C6: the binding the rewriter returns has, at a face-node pair and for
\* every assignment of field values, the value of the original flux on the
\* original interior operands and the original exterior expression.
C6_ValuePreserved ==
    pc = "rewritten" =>
        \A env \in FaceEnvironments :
            BindingValue(result, env) = BindingValue(optemplate, env)

\* the free variables of an expression, those below operator bindings included
FreeVariables(expr) == {n \in SubNodes(expr) : n.k \in {"Var", "ScalarParameter"}}

\* C8 as stated: a tree is returned only when no free variable is referenced
\* by both sides of the BoundaryPair.
C8_SharedVariableRejected ==
    pc = "rewritten" =>
        FreeVariables(optemplate.c[2].c[1]) \cap FreeVariables(optemplate.c[2].c[2]) = {}

\* the variables and operator bindings of an expression that are not below
\* an operator binding
RECURSIVE OutermostDependencies(_)
OutermostDependencies(expr) ==
    IF expr.k \in {"Var", "ScalarParameter", "OperatorBinding"} THEN {expr}
    ELSE UNION {OutermostDependencies(expr.c[i]) : i \in 1..Len(expr.c)}

SharedDependencies ==
    OutermostDependencies(optemplate.c[2].c[1])
        \cap OutermostDependencies(optemplate.c[2].c[2])

\* C8 amended: the rewriter raises, and returns no tree, when the two sides
\* share a dependency: a variable outside every operator binding, or a whole
\* operator binding.  A variable that one side references only below an
\* operator binding (Boundarize(u) on the boundary side, u on the interior
\* side) does not count; a tree is returned only when these dependency sets
\* are disjoint.
C8_SharedDependencyRejected ==
    /\ pc = "rewritten" => SharedDependencies = {}
    /\ (pc # "bound" /\ SharedDependencies # {}) =>
            /\ pc = "raised"
            /\ result = Raise("RuntimeError: both boundary and volume")

\* the variable u stands on both sides and the rewriter raised
C8_Witness ==
    /\ pc = "raised"
    /\ result = Raise("RuntimeError: both boundary and volume")
    /\ optemplate.c[2].c[1] = Var("u")
    /\ optemplate.c[2].c[2].k = "Sum"
    /\ optemplate.c[2].c[2].c[2] = Var("u")

\* the finder after it has mapped the boundary side of the BoundaryPair
FinderAfterMapping ==
    MaxBoundaryFluxEvaluableExpressionFinder(
        MaxBoundaryFluxEvaluableExpressionFinder_init(AsList(optemplate.c[2].c[1])),
        optemplate.c[2], optemplate.c[2].c[2]).self

\* the interior expressions the finder registers: the operands of the
\* Boundarize bindings of the boundary side that carry the pair's tag
RegisteredVolumeExprs ==
    {n.c[2] : n \in {m \in OutermostDependencies(optemplate.c[2].c[2]) :
                        /\ m.k = "OperatorBinding"
                        /\ m.c[1].k = "BoundarizeOperator"
                        /\ m.c[1].s = optemplate.c[2].s}}

RegisteredBoundaryExprs ==
    {m \in OutermostDependencies(optemplate.c[2].c[2]) : m.k = "Var"}

\* C26: once the rewriter has returned a tree, the index registered for
\* every interior expression and for every boundary expression is the
\* position of that expression in the final operand list, and registering
\* the expression again returns that same index; this for every initial
\* interior operand list, one holding an expression twice included.
C26_IndexIsPosition ==
    pc = "rewritten" =>
        LET self == FinderAfterMapping IN
        /\ \A expr \in RegisteredVolumeExprs :
                LET again == register_volume_expr(self, expr) IN
                /\ again.self = self
                /\ again.idx < Len(self.vol_expr_list)
                /\ self.vol_expr_list[again.idx + 1] = expr
        /\ \A expr \in RegisteredBoundaryExprs :
                LET again == register_boundary_expr(self, expr) IN
                /\ again.self = self
                /\ again.idx < Len(self.bdry_expr_list)
                /\ self.bdry_expr_list[again.idx + 1] = expr

(***************************************************************************)
(* OperatorSpecializer (mappers/__init__.py).  The typedict is a function  *)
(* from sub-expressions to types; a type is a record of its class, its     *)
(* representation tag (a record of class and quadrature tag; class "" for  *)
(* a type without repr_tag) and its boundary tag.                          *)
(***************************************************************************)
NodalRepresentation == [cls |-> "NodalRepresentation", quadrature_tag |-> ""]
QuadratureRepresentation(quadrature_tag) ==
    [cls |-> "QuadratureRepresentation", quadrature_tag |-> quadrature_tag]
type_info(cls, repr_tag, boundary_tag) ==
    [cls |-> cls, repr_tag |-> repr_tag, boundary_tag |-> boundary_tag]

is_QuadratureRepresentation_Never(repr_tag) == FALSE

is_QuadratureRepresentation_Always(repr_tag) == TRUE

\* isinstance(repr_tag, QuadratureRepresentation)
is_QuadratureRepresentation(repr_tag) == repr_tag.cls = "QuadratureRepresentation"

\* lines 350-368: process_flux_arg over the flux operands, in order; the
\* cell holds the first representation tag seen (none: the empty tuple)
RECURSIVE process_flux_arg(_, _, _)
process_flux_arg(typedict, flux_args, repr_tag_cell) ==
    IF flux_args = <<>> THEN [k |-> "repr_tag_cell", c |-> repr_tag_cell]
    ELSE LET flux_arg == Head(flux_args) IN
         IF flux_arg \notin DOMAIN typedict THEN Raise("KeyError")
         ELSE LET arg_repr_tag == typedict[flux_arg].repr_tag IN
              IF arg_repr_tag.cls = "" THEN Raise("AttributeError")
              ELSE IF repr_tag_cell = <<>>
              THEN process_flux_arg(typedict, Tail(flux_args), <<arg_repr_tag>>)
              ELSE IF arg_repr_tag # repr_tag_cell[1] THEN Raise("AssertionError")
              ELSE process_flux_arg(typedict, Tail(flux_args), repr_tag_cell)

RECURSIVE OperatorSpecializer(_, _)
OperatorSpecializer(typedict, expr) ==
    LET mapped == [i \in 1..Len(expr.c) |-> OperatorSpecializer(typedict, expr.c[i])]
        op == expr.c[1]
        field == expr.c[2]
        \* numpy arrays are not hashable: has_quad_operand remains unset
        unset == field.k = "ObjArray"
        field_type == typedict[field]
        field_repr_tag == field_type.repr_tag
        has_quad_operand ==
            field_repr_tag.cls # "" /\ is_QuadratureRepresentation(field_repr_tag)
        IdentityMapper_map_operator_binding ==
            IF IsRaise(mapped[2]) THEN mapped[2] ELSE OperatorBinding(op, mapped[2])
        flux_args ==
            IF field.k = "BoundaryPair"
            THEN AsList(field.c[1]) \o AsList(field.c[2]) ELSE AsList(field)
        repr_tag_cell == process_flux_arg(typedict, flux_args, <<>>)
        is_boundary == field.k = "BoundaryPair"
        is_quad ==
            /\ repr_tag_cell.c # <<>>
            /\ is_QuadratureRepresentation(repr_tag_cell.c[1])
        quad_tag == repr_tag_cell.c[1].quadrature_tag
        flux == op.c[1]
        specialized_flux ==
            IF is_boundary
            THEN IF is_quad THEN QuadratureBoundaryFluxOperator(flux, quad_tag, field.s)
                 ELSE BoundaryFluxOperator(flux, field.s)
            ELSE IF is_quad THEN QuadratureFluxOperator(flux, quad_tag)
                 ELSE IF op.v = 1 THEN Lifted(FluxOperator(flux)) ELSE FluxOperator(flux)
    IN
    CASE expr.k = "OperatorBinding" ->
            IF ~unset /\ field \notin DOMAIN typedict THEN Raise("KeyError")
            ELSE IF ~unset /\ field_repr_tag.cls = "" /\ field.k # "BoundaryPair"
            THEN Raise("AssertionError")
            ELSE IF op.k \in {"MassOperator", "StiffnessTOperator",
                              "QuadratureGridUpsampler", "BoundarizeOperator"}
                    /\ unset
            THEN Raise("UnboundLocalError")
            ELSE IF op.k = "MassOperator" /\ has_quad_operand
            THEN Operator_call(QuadratureMassOperator(field_repr_tag.quadrature_tag),
                               mapped[2])
            ELSE IF op.k = "StiffnessTOperator" /\ has_quad_operand
            THEN Operator_call(
                    QuadratureStiffnessTOperator(op.v, field_repr_tag.quadrature_tag),
                    mapped[2])
            ELSE IF op.k = "QuadratureGridUpsampler" /\ field_type.cls = "BoundaryVector"
            THEN Operator_call(
                    QuadratureBoundaryGridUpsampler(op.s, field_type.boundary_tag),
                    field)
            ELSE IF op.k = "BoundarizeOperator" /\ has_quad_operand
            THEN Raise("TypeError")
            ELSE IF op.k \in FluxOperatorBase
            THEN IF IsRaise(repr_tag_cell) THEN repr_tag_cell
                 ELSE IF is_quad /\ op.v = 1 THEN Raise("AssertionError")
                 ELSE IF IsRaise(mapped[2]) THEN mapped[2]
                 ELSE OperatorBinding(specialized_flux, mapped[2])
            ELSE IdentityMapper_map_operator_binding
      [] expr.k = "BoundaryNormalComponent" ->
            IF expr \notin DOMAIN typedict THEN Raise("KeyError")
            ELSE IF typedict[expr].repr_tag # NodalRepresentation
            THEN Raise("NotImplementedError")
            ELSE expr
      [] expr.k = "Sum" -> flattened_sum(mapped)
      [] expr.k = "Product" -> flattened_product(mapped)
      [] expr.k \in {"BoundaryPair", "ObjArray"} ->
            IF AnyRaise(mapped) THEN FirstRaise(mapped)
            ELSE Node(expr.k, expr.v, expr.s, mapped)
      [] OTHER -> expr

(***************************************************************************)
(* Specification SpecSpecialize: OperatorSpecializer on a tree and a       *)
(* typedict that gives a type to every operand and flux operand of it.     *)
(***************************************************************************)
\* the sub-expressions of e that a typedict has entries for: operands of
\* bindings, sides of boundary pairs, components and terms
RECURSIVE TypedSubexpressions(_)
TypedSubexpressions(e) ==
    IF IsOperator(e) THEN {}
    ELSE UNION {(IF e.c[i].k = "ObjArray" \/ IsOperator(e.c[i]) THEN {} ELSE {e.c[i]})
                    \cup TypedSubexpressions(e.c[i]) : i \in 1..Len(e.c)}

InitSpecialize ==
    LET QuadratureTags == {"quad_a", "quad_b"}
        Types ==
            {type_info("VolumeVector", NodalRepresentation, ""),
             type_info("BoundaryVector", NodalRepresentation, "dirichlet")}
                \cup {type_info("VolumeVector", QuadratureRepresentation(q), "") :
                        q \in QuadratureTags}
                \cup {type_info("BoundaryVector", QuadratureRepresentation("quad_a"),
                                "dirichlet")}
        \* boundary pairs are not assigned types
        NoType == type_info("", [cls |-> "", quadrature_tag |-> ""], "")
        TypeDicts(tree) ==
            LET S == TypedSubexpressions(tree) IN
            {[e \in S |-> IF e.k = "BoundaryPair" THEN NoType ELSE t[e]] :
                t \in [S -> Types]}
        Leaves == {Var("u"), Var("q")}
        ElementwiseOperators ==
            {MassOperator, BoundarizeOperator("dirichlet"),
             QuadratureGridUpsampler("quad_b")}
                \cup {StiffnessTOperator(a) : a \in Axes}
                \cup {DifferentiationOperator(MaxAxis)}
        Bindings == {OperatorBinding(op, x) : op \in ElementwiseOperators, x \in Leaves}
        Flux == Product(<<Normal(0), FieldComponent(0, "int")>>)
        FluxOperators ==
            {FluxOperator(Flux), Lifted(FluxOperator(Flux)),
             BoundaryFluxOperator(Flux, "neumann")}
        FluxFields ==
            Leaves
                \cup {ObjArray(<<Var("u"), Var("q")>>)}
                \cup {BoundaryPair(x, y, tag) : x \in Leaves, y \in Leaves, tag \in Tags}
                \cup {BoundaryPair(Var("u"),
                        OperatorBinding(BoundarizeOperator("dirichlet"), Var("q")),
                        "dirichlet")}
        Trees ==
            Bindings
                \cup {OperatorBinding(op, b) :
                        op \in {MassOperator, QuadratureGridUpsampler("quad_b"),
                                DifferentiationOperator(0)},
                        b \in Bindings}
                \cup {Sum(<<Var("u"), b>>) : b \in Bindings}
                \cup {OperatorBinding(op, x) : op \in FluxOperators, x \in FluxFields}
                \cup {OperatorBinding(MassOperator, x) :
                        x \in {ObjArray(<<Var("u"), Var("q")>>),
                               BoundaryPair(Var("u"), Var("q"), "dirichlet")}}
                \cup {OperatorBinding(QuadratureGridUpsampler("quad_b"),
                        OperatorBinding(BoundarizeOperator("dirichlet"),
                            OperatorBinding(MassOperator, Var("q"))))}
    IN
    /\ pc = "typed"
    /\ optemplate \in Trees
    /\ result = Const(0)
    /\ context \in {[typedict |-> t] : t \in TypeDicts(optemplate)}

\* OperatorSpecializer(typedict)(optemplate)
specialize ==
    /\ pc = "typed"
    /\ result' = OperatorSpecializer(context.typedict, optemplate)
    /\ pc' = IF IsRaise(result') THEN "raised" ELSE "specialized"
    /\ UNCHANGED <<optemplate, context>>

NextSpecialize == specialize

SpecSpecialize == InitSpecialize /\ [][NextSpecialize]_vars

IsBoundarizeOfQuadrature(n) ==
    /\ n.k = "OperatorBinding"
    /\ n.c[1].k = "BoundarizeOperator"
    /\ n.c[2] \in DOMAIN context.typedict
    /\ is_QuadratureRepresentation(context.typedict[n.c[2]].repr_tag)

\* C11: when the tree holds, at any position, a binding of the Boundarize
\* operator whose operand the typedict marks as quadrature-represented, the
\* specializer raises and returns no tree.
C11_BoundarizeOfQuadratureRejected ==
    pc = "specialized" =>
        \A n \in SubNodes(optemplate) : ~IsBoundarizeOfQuadrature(n)

\* the operand of the root binding, specialized
SpecializedOperand == OperatorSpecializer(context.typedict, optemplate.c[2])

\* C17: a binding of the generic Mass operator (of StiffnessT along axis k)
\* whose operand the typedict marks as quadrature-represented with tag q
\* comes back as QuadratureMass(q) (QuadratureStiffnessT(k, q)) bound to the
\* specialized operand; with a nodal operand the operator is unchanged.
C17_QuadratureSiblings ==
    (/\ pc # "typed"
     /\ optemplate.k = "OperatorBinding"
     /\ optemplate.c[1].k \in {"MassOperator", "StiffnessTOperator"}
     /\ optemplate.c[2] \in DOMAIN context.typedict
     /\ ~IsRaise(SpecializedOperand)) =>
        LET op == optemplate.c[1]
            repr_tag == context.typedict[optemplate.c[2]].repr_tag
        IN /\ repr_tag.cls = "QuadratureRepresentation" =>
                result = OperatorBinding(
                            IF op.k = "MassOperator"
                            THEN QuadratureMassOperator(repr_tag.quadrature_tag)
                            ELSE QuadratureStiffnessTOperator(op.v,
                                    repr_tag.quadrature_tag),
                            SpecializedOperand)
           /\ repr_tag.cls = "NodalRepresentation" =>
                result = OperatorBinding(op, SpecializedOperand)

\* Mass of StiffnessT of q, both operands quadrature-represented under
\* different tags: both operators were replaced by their quadrature siblings
C17_Witness ==
    /\ pc = "specialized"
    /\ optemplate =
        OperatorBinding(MassOperator,
            OperatorBinding(StiffnessTOperator(MaxAxis), Var("q")))
    /\ result =
        OperatorBinding(QuadratureMassOperator("quad_b"),
            OperatorBinding(QuadratureStiffnessTOperator(MaxAxis, "quad_a"), Var("q")))

\* the flux operands of the root binding and their representation tags
FluxOperands ==
    LET field == optemplate.c[2]
        list == IF field.k = "BoundaryPair"
                THEN AsList(field.c[1]) \o AsList(field.c[2]) ELSE AsList(field)
    IN {list[i] : i \in 1..Len(list)}

FluxOperandTags == {context.typedict[a].repr_tag : a \in FluxOperands}

IsFluxBindingWithOneTag ==
    /\ optemplate.k = "OperatorBinding"
    /\ optemplate.c[1].k \in FluxOperatorBase
    /\ Cardinality(FluxOperandTags) = 1
    /\ ~IsRaise(SpecializedOperand)

\* the operator the four-way choice names
ChosenFluxOperator ==
    LET op == optemplate.c[1]
        field == optemplate.c[2]
        tag == CHOOSE t \in FluxOperandTags : TRUE
    IN IF field.k = "BoundaryPair"
       THEN IF tag.cls = "QuadratureRepresentation"
            THEN QuadratureBoundaryFluxOperator(op.c[1], tag.quadrature_tag, field.s)
            ELSE BoundaryFluxOperator(op.c[1], field.s)
       ELSE IF tag.cls = "QuadratureRepresentation"
            THEN QuadratureFluxOperator(op.c[1], tag.quadrature_tag)
            ELSE Node("FluxOperator", op.v, "", <<op.c[1]>>)

IsLiftedOverQuadrature ==
    /\ optemplate.c[1].v = 1
    /\ \E t \in FluxOperandTags : t.cls = "QuadratureRepresentation"

\* C18: every flux-base binding whose operands share one representation
\* tag comes back as exactly one of Flux, QuadratureFlux, BoundaryFlux,
\* QuadratureBoundaryFlux, chosen by (the operand is a BoundaryPair, the tag
\* is a quadrature tag), with the original flux, the BoundaryPair's tag, the
\* operands' quadrature tag, and the lifted flag on the nodal interior
\* variant.
C18_FourWayChoice ==
    (pc # "typed" /\ IsFluxBindingWithOneTag) =>
        /\ pc = "specialized"
        /\ result = OperatorBinding(ChosenFluxOperator, SpecializedOperand)

\* C18 amended: the four-way choice is made for every flux-base binding
\* whose operands share one representation tag, except that a lifted flux
\* operator over quadrature-represented operands fails an assertion and no
\* tree is returned.
C18_FourWayChoiceUnlessLifted ==
    (pc # "typed" /\ IsFluxBindingWithOneTag) =>
        IF IsLiftedOverQuadrature
        THEN pc = "raised" /\ result = Raise("AssertionError")
        ELSE /\ pc = "specialized"
             /\ result = OperatorBinding(ChosenFluxOperator, SpecializedOperand)

\* a boundary flux operator tagged neumann, bound to a dirichlet pair of
\* quadrature operands, came back as the quadrature boundary flux operator
\* of the pair's tag
C18_Witness ==
    /\ pc = "specialized"
    /\ optemplate.c[1].k = "BoundaryFluxOperator"
    /\ optemplate.c[1].s = "neumann"
    /\ optemplate.c[2] = BoundaryPair(Var("u"), Var("q"), "dirichlet")
    /\ result.c[1] =
        QuadratureBoundaryFluxOperator(optemplate.c[1].c[1], "quad_b", "dirichlet")
    /\ result.c[2] = optemplate.c[2]

\* a binding of the generic Mass or StiffnessT operator whose operand the
\* typedict marks as quadrature-represented
IsGenericOverQuadrature(n) ==
    /\ n.k = "OperatorBinding"
    /\ n.c[1].k \in {"MassOperator", "StiffnessTOperator"}
    /\ n.c[2] \in DOMAIN context.typedict
    /\ context.typedict[n.c[2]].repr_tag.cls = "QuadratureRepresentation"

\* C30: in the tree the specializer returns no binding of the generic Mass
\* or StiffnessT operator to a quadrature-represented operand remains, at
\* any depth, the operands of the bindings the specializer rewrites
\* included.
C30_NoGenericOverQuadrature ==
    pc = "specialized" => \A n \in SubNodes(result) : ~IsGenericOverQuadrature(n)

(***************************************************************************)
(* Equality and hashing of the expression nodes (primitives.py).  A Python *)
(* object is a record of its node and its identity id; the hash of a tuple *)
(* is the tuple, so that equal tuples, and only equal tuples, hash alike.  *)
(* A quadrature_tag of None is the empty tuple of children.                *)
(***************************************************************************)
Jacobian(quadrature_tag) == Node("Jacobian", 0, quadrature_tag, <<>>)
ForwardMetricDerivative(quadrature_tag, xyz_axis, rst_axis) ==
    Node("ForwardMetricDerivative", xyz_axis, quadrature_tag, <<Const(rst_axis)>>)
InverseMetricDerivative(quadrature_tag, rst_axis, xyz_axis) ==
    Node("InverseMetricDerivative", xyz_axis, quadrature_tag, <<Const(rst_axis)>>)

\* is_equal(self, other) of each class
is_equal(self, other) ==
    LET \* hedge.tools.field_equal: object arrays compare component by component
        field_equal(a, b) ==
            IF a.k = "ObjArray"
            THEN /\ b.k = "ObjArray"
                 /\ Len(a.c) = Len(b.c)
                 /\ \A i \in 1..Len(a.c) : a.c[i] = b.c[i]
            ELSE b.k # "ObjArray" /\ a = b
    IN
    CASE self.k = "OperatorBinding" ->
            /\ other.k = self.k
            /\ other.c[1] = self.c[1]
            /\ field_equal(other.c[2], self.c[2])
      [] self.k = "BoundaryPair" ->
            /\ self.k = other.k
            /\ field_equal(other.c[1], self.c[1])
            /\ field_equal(other.c[2], self.c[2])
            /\ other.s = self.s
      [] self.k = "BoundaryNormalComponent" ->
            /\ other.k = self.k
            /\ other.s = self.s
            /\ other.v = self.v
            /\ other.c = self.c
      [] self.k = "Jacobian" ->
            /\ other.k = self.k
            /\ other.s = self.s
      [] self.k \in {"ForwardMetricDerivative", "InverseMetricDerivative"} ->
            /\ other.k = self.k
            /\ other.s = self.s
            /\ other.c[1].v = self.c[1].v
            /\ other.v = self.v

get_hash_OfIdentity(self) == <<self.node.k, self.id>>

\* get_hash(self) of each class
get_hash(self) ==
    LET node == self.node
        \* hedge.tools.hashable_field: an object array as the tuple of its entries
        hashable_field(f) == IF f.k = "ObjArray" THEN f.c ELSE <<f>>
    IN
    CASE node.k = "OperatorBinding" ->
            <<node.k, <<node.c[1]>>, hashable_field(node.c[2])>>
      [] node.k = "BoundaryPair" ->
            <<node.k, hashable_field(node.c[1]), hashable_field(node.c[2]), node.s>>
      [] node.k = "BoundaryNormalComponent" -> <<node.k, node.s, node.v, node.c>>
      [] node.k = "Jacobian" -> <<node.k, node.s>>
      [] node.k \in {"ForwardMetricDerivative", "InverseMetricDerivative"} ->
            <<node.k, node.s, node.v, node.c[1].v>>

\* pymbolic's Expression.__eq__: identity, then the hashes, then is_equal
Expression_eq(self, other) ==
    IF self.id = other.id THEN TRUE
    ELSE IF get_hash(self) # get_hash(other) THEN FALSE
    ELSE is_equal(self.node, other.node)

(***************************************************************************)
(* Specification SpecEquality: two node objects are compared and hashed.   *)
(***************************************************************************)
InitEquality ==
    LET Operands == {Var("u"), Var("v"), ObjArray(<<Var("u"), Var("v")>>),
                     ObjArray(<<Var("u")>>)}
        QuadratureTags == {"quad_a", "quad_b"}
        Objects ==
            {OperatorBinding(op, x) :
                op \in {MassOperator, InverseMassOperator}
                        \cup {DifferentiationOperator(a) : a \in Axes},
                x \in Operands}
            \cup {BoundaryPair(x, y, tag) : x \in Operands, y \in Operands, tag \in Tags}
            \cup {Node("BoundaryNormalComponent", a, tag, q) :
                    a \in Axes, tag \in Tags,
                    q \in {<<>>} \cup {<<QuadratureTag(t)>> : t \in QuadratureTags}}
            \cup {Jacobian(q) : q \in QuadratureTags}
            \cup {ForwardMetricDerivative(q, x, r) :
                    q \in QuadratureTags, x \in Axes, r \in Axes}
            \cup {InverseMetricDerivative(q, r, x) :
                    q \in QuadratureTags, x \in Axes, r \in Axes}
    IN
    /\ pc = "built"
    /\ optemplate \in {[node |-> n, id |-> 1] : n \in Objects}
    \* the other object: the same object, or one built separately
    /\ context \in {optemplate} \cup {[node |-> n, id |-> 2] : n \in Objects}
    /\ result = Const(0)

\* self == other, hash(self), hash(other)
compare ==
    /\ pc = "built"
    /\ result' = [eq |-> Expression_eq(optemplate, context),
                  hash_self |-> get_hash(optemplate),
                  hash_other |-> get_hash(context)]
    /\ pc' = "compared"
    /\ UNCHANGED <<optemplate, context>>

NextEquality == compare

SpecEquality == InitEquality /\ [][NextEquality]_vars

\* C12: two nodes are equal exactly when they are of the same class and all
\* their constructor parameters are equal, whether or not they are the same
\* object; and equal nodes have equal hashes.
C12_StructuralEquality ==
    pc = "compared" =>
        /\ result.eq <=> (optemplate.node = context.node)
        /\ result.eq => result.hash_self = result.hash_other

\* two separately built boundary pairs with equal sides and tag are equal
C12_Witness ==
    /\ pc = "compared"
    /\ optemplate.id # context.id
    /\ optemplate.node.k = "BoundaryPair"
    /\ optemplate.node.c[2].k = "ObjArray"
    /\ optemplate.node = context.node
    /\ result.eq
    /\ result.hash_self = result.hash_other

(***************************************************************************)
(* Specification SpecInnerFlux: Discretization.perform_inner_flux          *)
(* (discr_precompiled.py), one step per face group of the loop.  optemplate *)
(* holds the face groups the loop has yet to visit, result the array behind *)
(* the target.                                                             *)
(***************************************************************************)
MaxFaceGroups == 3

InitInnerFlux ==
    LET faces == InteriorFaces(1)
        indices == [f \in 1..Len(faces) |-> f]
        \* the faces split into face groups, in every order of the groups
        FaceGroupLists ==
            UNION {
                {[g \in 1..k |->
                    LET members == SelectSeq(indices, LAMBDA f : assignment[f] = g)
                    IN [n \in 1..Len(members) |-> faces[members[n]]]] :
                        assignment \in {a \in [1..Len(faces) -> 1..k] :
                                            \A g \in 1..k : \E f \in DOMAIN a : a[f] = g}} :
                    k \in 1..MaxFaceGroups}
    IN
    /\ pc = "called"
    /\ optemplate = <<>>
    /\ result = volume_zeros
    /\ context \in {[int_flux |-> i, ext_flux |-> x, field |-> u, face_groups |-> fgs] :
                        i \in {ConstantFlux(1), NormalFlux(0)},
                        x \in {ConstantFlux(MaxConst), NormalFlux(0)},
                        u \in {Ramp, Ones},
                        fgs \in FaceGroupLists}

\* target.begin(len(self.nodes), len(self.nodes)); the loop starts
target_begin ==
    /\ pc = "called"
    /\ pc' = "loop"
    /\ optemplate' = context.face_groups
    /\ UNCHANGED <<result, context>>

\* one pass of the loop: perform_flux_on_one_target(fg, fmm, ch_int, ch_ext, target, nf)
perform_flux_on_one_target ==
    /\ pc = "loop"
    /\ optemplate # <<>>
    /\ result' = perform_flux(Head(optemplate), ChainedFlux(context.int_flux), context.field,
                              ChainedFlux(context.ext_flux), context.field, result)
    /\ optemplate' = Tail(optemplate)
    /\ UNCHANGED <<pc, context>>

\* target.finalize()
target_finalize ==
    /\ pc = "loop"
    /\ optemplate = <<>>
    /\ pc' = "finalized"
    /\ UNCHANGED <<optemplate, result, context>>

NextInnerFlux == target_begin \/ perform_flux_on_one_target \/ target_finalize

SpecInnerFlux == InitInnerFlux /\ [][NextInnerFlux]_vars

\* what the faces of one face group add at a node
RECURSIVE GroupContribution(_, _)
GroupContribution(faces, node) ==
    IF faces = <<>> THEN 0
    ELSE LET face == Head(faces) IN
         (IF face.node = node
          THEN FluxKernelValue(context.int_flux, face) * context.field.c[face.node].v
               + FluxKernelValue(context.ext_flux, face) * context.field.c[face.opposite].v
          ELSE 0) + GroupContribution(Tail(faces), node)

\* the contributions of a set of face groups at a node, in no order
RECURSIVE SumOfContributions(_, _)
SumOfContributions(groups, node) ==
    IF groups = {} THEN 0
    ELSE LET g == CHOOSE x \in groups : TRUE IN
         GroupContribution(context.face_groups[g], node)
            + SumOfContributions(groups \ {g}, node)

\* C14: when the loop over the face groups has ended, the output holds at
\* every node the sum of the contributions of all face groups, in whatever
\* order the groups were visited; while the loop runs it holds the sum of the
\* contributions of the groups visited so far.
C14_NoLostUpdate ==
    pc \in {"loop", "finalized"} =>
        LET visited == 1..(Len(context.face_groups) - Len(optemplate)) IN
        \A node \in Nodes : result.c[node].v = SumOfContributions(visited, node)

\* a node touched by the faces of two face groups, each adding a value that
\* is not zero, holds the sum of both after the loop
C14_Witness ==
    /\ pc = "finalized"
    /\ Len(context.face_groups) >= 2
    /\ GroupContribution(context.face_groups[1], 1) # 0
    /\ GroupContribution(context.face_groups[2], 1) # 0
    /\ result.c[1].v = SumOfContributions(1..Len(context.face_groups), 1)
    /\ result.c[1].v # GroupContribution(context.face_groups[Len(context.face_groups)], 1)

(***************************************************************************)
(* InverseMassContractor and _InnerInverseMassContractor                   *)
(* (mappers/__init__.py).  The inner mapper is called on the operand of an *)
(* InverseMass binding; a node it has no handler for raises ValueError.    *)
(***************************************************************************)
RECURSIVE InverseMassContractor(_)
RECURSIVE InnerInverseMassContractor(_)

InnerInverseMassContractor(expr) ==
    LET outer == InverseMassContractor(expr) IN
    CASE expr.k = "Const" ->
            IF is_zero(expr) THEN Const(0)
            ELSE OperatorBinding(InverseMassOperator, outer)
      [] expr.k \in {"Var", "BoundaryNormalComponent", "Jacobian",
                     "ForwardMetricDerivative", "InverseMetricDerivative"} ->
            OperatorBinding(InverseMassOperator, outer)
      [] expr.k = "OperatorBinding" ->
            LET op == expr.c[1]
                field == InverseMassContractor(expr.c[2])
            IN
            IF op.k = "MassOperator" THEN expr.c[2]
            ELSE IF op.k = "StiffnessOperator"
            THEN Operator_call(DifferentiationOperator(op.v), field)
            ELSE IF op.k = "StiffnessTOperator"
            THEN Operator_call(MInvSTOperator(op.v), field)
            ELSE IF op.k = "FluxOperator"
            THEN IF op.v = 1 THEN Raise("AssertionError")
                 ELSE IF IsRaise(field) THEN field
                 ELSE OperatorBinding(Lifted(FluxOperator(op.c[1])), field)
            ELSE IF op.k = "BoundaryFluxOperator"
            THEN IF op.v = 1 THEN Raise("AssertionError")
                 ELSE IF IsRaise(field) THEN field
                 ELSE OperatorBinding(Lifted(BoundaryFluxOperator(op.c[1], op.s)), field)
            ELSE Operator_call(InverseMassOperator, outer)
      [] expr.k = "Sum" ->
            LET mapped == [i \in 1..Len(expr.c) |-> InnerInverseMassContractor(expr.c[i])]
            IN IF AnyRaise(mapped) THEN FirstRaise(mapped) ELSE Sum(mapped)
      [] expr.k = "Product" ->
            IF Cardinality({i \in 1..Len(expr.c) : ~is_scalar(expr.c[i])}) > 1
            THEN IF IsRaise(outer) THEN outer
                 ELSE OperatorBinding(InverseMassOperator, outer)
            ELSE LET mapped == [i \in 1..Len(expr.c) |->
                        IF is_scalar(expr.c[i]) THEN expr.c[i]
                        ELSE InnerInverseMassContractor(expr.c[i])]
                 IN IF AnyRaise(mapped) THEN FirstRaise(mapped) ELSE Product(mapped)
      [] OTHER -> Raise("ValueError")

InverseMassContractor(expr) ==
    LET mapped == [i \in 1..Len(expr.c) |-> InverseMassContractor(expr.c[i])] IN
    CASE expr.k = "OperatorBinding" ->
            IF expr.c[1].k = "InverseMassOperator"
            THEN InnerInverseMassContractor(expr.c[2])
            ELSE IF IsRaise(mapped[2]) THEN mapped[2]
            ELSE OperatorBinding(expr.c[1], mapped[2])
      [] expr.k = "Sum" -> flattened_sum(mapped)
      [] expr.k = "Product" -> flattened_product(mapped)
      [] expr.k \in {"BoundaryPair", "ObjArray"} ->
            IF AnyRaise(mapped) THEN FirstRaise(mapped)
            ELSE Node(expr.k, expr.v, expr.s, mapped)
      [] OTHER -> expr

(***************************************************************************)
(* Specification SpecContract: the InverseMassContractor runs on an        *)
(* InverseMass binding.                                                    *)
(***************************************************************************)
InitContract ==
    LET Leaves == {Var("u"), Const(0), Const(MaxConst)}
        InnerOperands ==
            Leaves \cup {OperatorBinding(InverseMassOperator, OperatorBinding(MassOperator, Var("v")))}
        Flux == Product(<<Normal(0), FieldComponent(0, "int")>>)
        ElementwiseOperators ==
            {MassOperator, InverseMassOperator}
                \cup UNION {{StiffnessOperator(a), StiffnessTOperator(a),
                             DifferentiationOperator(a)} : a \in Axes}
        Bindings ==
            {OperatorBinding(op, x) : op \in ElementwiseOperators, x \in InnerOperands}
            \cup {OperatorBinding(op, x) :
                    op \in {FluxOperator(Flux), Lifted(FluxOperator(Flux))},
                    x \in InnerOperands}
            \cup {OperatorBinding(op, BoundaryPair(x, Var("v"), op.s)) :
                    op \in UNION {{BoundaryFluxOperator(Flux, tag),
                                   Lifted(BoundaryFluxOperator(Flux, tag))} : tag \in Tags},
                    x \in InnerOperands}
        SmallBindings == {b \in Bindings : b.c[2] \in {Var("u"), BoundaryPair(Var("u"), Var("v"), b.c[1].s)}}
        Scalars == {Const(MaxConst), ScalarParameter("a")}
        Operands ==
            Leaves \cup Bindings
            \cup {Sum(<<x, y>>) : x \in SmallBindings, y \in Leaves \cup {OperatorBinding(MassOperator, Var("v"))}}
            \cup {Product(<<c, x>>) : c \in Scalars, x \in SmallBindings \cup Scalars \cup {Var("u")}}
            \cup {Product(<<x, c>>) : c \in Scalars, x \in SmallBindings}
            \cup {Product(<<Var("u"), x>>) : x \in SmallBindings}
    IN
    /\ pc = "bound"
    /\ optemplate \in {OperatorBinding(InverseMassOperator, x) : x \in Operands}
    /\ result = Const(0)
    /\ context = NoContext

\* InverseMassContractor()(optemplate)
contract_inverse_mass ==
    /\ pc = "bound"
    /\ result' = InverseMassContractor(optemplate)
    /\ pc' = IF IsRaise(result') THEN "raised" ELSE "contracted"
    /\ UNCHANGED <<optemplate, context>>

NextContract == contract_inverse_mass

SpecContract == InitContract /\ [][NextContract]_vars

\* InverseMass applied to e, as the contractor returns it
ContractedInverseMass(e) == InverseMassContractor(OperatorBinding(InverseMassOperator, e))

IsScalarFactor(e) == e.k \in {"Const", "ScalarParameter"}

\* what the contraction rules give for InverseMass applied to X; with
\* exceptions, an already lifted flux operator fails the assertion and an
\* operand that contracts to the constant zero gives zero
ContractionRule(X, exceptions) ==
    LET Bound(op, field) == IF IsRaise(field) THEN field ELSE OperatorBinding(op, field)
        Rebuilt(klass, children) ==
            IF AnyRaise(children) THEN FirstRaise(children)
            ELSE Node(klass, 0, "", children)
        op == X.c[1]
    IN
    IF X.k = "OperatorBinding" /\ op.k = "MassOperator" THEN X.c[2]
    ELSE IF X.k = "OperatorBinding" /\ op.k = "StiffnessTOperator"
    THEN Operator_call(MInvSTOperator(op.v), InverseMassContractor(X.c[2]))
    ELSE IF X.k = "OperatorBinding" /\ op.k = "StiffnessOperator"
    THEN Operator_call(DifferentiationOperator(op.v), InverseMassContractor(X.c[2]))
    ELSE IF X.k = "OperatorBinding" /\ op.k \in {"FluxOperator", "BoundaryFluxOperator"}
    THEN IF exceptions /\ op.v = 1 THEN Raise("AssertionError")
         ELSE Bound(Node(op.k, 1, op.s, op.c), InverseMassContractor(X.c[2]))
    ELSE IF X.k = "Sum"
    THEN Rebuilt("Sum", [i \in 1..Len(X.c) |-> ContractedInverseMass(X.c[i])])
    ELSE IF /\ X.k = "Product"
            /\ Cardinality({i \in 1..Len(X.c) : ~IsScalarFactor(X.c[i])}) <= 1
    THEN Rebuilt("Product", [i \in 1..Len(X.c) |->
                IF IsScalarFactor(X.c[i]) THEN X.c[i] ELSE ContractedInverseMass(X.c[i])])
    ELSE IF exceptions /\ is_zero(InverseMassContractor(X)) THEN Const(0)
    ELSE Bound(InverseMassOperator, InverseMassContractor(X))

\* C20 as stated: InverseMass(Mass(X)) gives X; InverseMass over a
\* StiffnessT, Stiffness, Flux or BoundaryFlux binding gives MInvST,
\* Differentiation, lifted Flux, lifted BoundaryFlux applied to the
\* contracted operand; InverseMass distributes over a sum and over a product
\* with at most one non-scalar factor; anything else keeps its InverseMass.
C20_ContractionRules ==
    pc \in {"contracted", "raised"} => result = ContractionRule(optemplate.c[2], FALSE)

\* C20 (amended): the same rules, except that a Flux or BoundaryFlux binding
\* whose operator is already lifted fails an assertion, and that InverseMass
\* of an operand that contracts to the constant zero is zero.
C20_ContractionRulesWithExceptions ==
    pc \in {"contracted", "raised"} => result = ContractionRule(optemplate.c[2], TRUE)

\* InverseMass over StiffnessT of an operand that itself contracts
C20_Witness ==
    /\ pc = "contracted"
    /\ optemplate.c[2].k = "OperatorBinding"
    /\ optemplate.c[2].c[1] = StiffnessTOperator(MaxAxis)
    /\ optemplate.c[2].c[2] =
            OperatorBinding(InverseMassOperator, OperatorBinding(MassOperator, Var("v")))
    /\ result = OperatorBinding(MInvSTOperator(MaxAxis), Var("v"))

\* an InverseMass binding whose direct operand is a binding the contractor
\* has a rule for: Mass, StiffnessT, Stiffness, non-lifted Flux or
\* non-lifted BoundaryFlux
IsContractible(n) ==
    /\ n.k = "OperatorBinding"
    /\ n.c[1].k = "InverseMassOperator"
    /\ n.c[2].k = "OperatorBinding"
    /\ \/ n.c[2].c[1].k \in {"MassOperator", "StiffnessTOperator", "StiffnessOperator"}
       \/ /\ n.c[2].c[1].k \in {"FluxOperator", "BoundaryFluxOperator"}
          /\ n.c[2].c[1].v = 0

\* C27: in the tree the contractor returns no InverseMass binding, at any
\* depth, has a Mass, StiffnessT, Stiffness, non-lifted Flux or non-lifted
\* BoundaryFlux binding as its direct operand, and the contractor applied to
\* that tree returns an equal tree.
C27_CompleteAndIdempotent ==
    pc = "contracted" =>
        /\ \A n \in SubNodes(result) : ~IsContractible(n)
        /\ InverseMassContractor(result) = result

(***************************************************************************)
(* A linear interpretation of the operators on one degree of freedom, in   *)
(* the integers modulo 7: every operator multiplies by a factor, the       *)
(* factor 5 of InverseMass is the inverse of the factor 3 of Mass,         *)
(* Stiffness is Mass after Differentiation, StiffnessT is Mass after       *)
(* MInvST and a flux operator is Mass after its lifted variant.            *)
(***************************************************************************)
OperatorFactor(op) ==
    CASE op.k = "MassOperator" -> 3
      [] op.k = "InverseMassOperator" -> 5
      [] op.k = "DifferentiationOperator" -> op.v + 2
      [] op.k = "StiffnessOperator" -> 3 * (op.v + 2)
      [] op.k = "MInvSTOperator" -> op.v + 4
      [] op.k = "StiffnessTOperator" -> 3 * (op.v + 4)
      [] op.k \in {"FluxOperator", "BoundaryFluxOperator"} ->
            IF op.v = 1 THEN 2 ELSE 3 * 2

RECURSIVE LinearValue(_, _)
LinearValue(expr, env) ==
    CASE expr.k = "Const" -> expr.v % 7
      [] expr.k \in {"Var", "ScalarParameter"} -> env[expr.s]
      [] expr.k = "BoundaryPair" ->
            (LinearValue(expr.c[1], env) + 3 * LinearValue(expr.c[2], env)) % 7
      [] expr.k = "OperatorBinding" ->
            (OperatorFactor(expr.c[1]) * LinearValue(expr.c[2], env)) % 7
      [] expr.k = "Sum" ->
            IF expr.c = <<>> THEN 0
            ELSE (LinearValue(Head(expr.c), env)
                    + LinearValue(Sum(Tail(expr.c)), env)) % 7
      [] expr.k = "Product" ->
            IF expr.c = <<>> THEN 1
            ELSE (LinearValue(Head(expr.c), env)
                    * LinearValue(Product(Tail(expr.c)), env)) % 7

LinearEnvironments == [{"u", "v", "a"} -> 0..2]

\* C28: the tree the contractor returns for InverseMass(X) has, under the
\* linear interpretation and for every assignment of the variables, the
\* value of InverseMass applied to X; a product of scalar factors only has
\* the inverse mass applied like every other operand.
C28_MeaningPreserved ==
    pc = "contracted" =>
        \A env \in LinearEnvironments :
            LinearValue(result, env)
                = (5 * LinearValue(optemplate.c[2], env)) % 7

(***************************************************************************)
(* The value of a flux coefficient expression at a face, against which the *)
(* compiled kernel of a power is compared (SpecFluxCompile).               *)
(***************************************************************************)
RECURSIVE IntegerPower(_, _)
IntegerPower(b, e) == IF e <= 0 THEN 1 ELSE b * IntegerPower(b, e - 1)

RECURSIVE CoefficientValue(_, _)
CoefficientValue(expr, face) ==
    CASE expr.k = "Const" -> expr.v
      [] expr.k = "Normal" -> face.normal[expr.v + 1]
      [] expr.k = "PenaltyTerm" -> 1
      [] expr.k = "Negation" -> 0 - CoefficientValue(expr.c[1], face)
      [] expr.k = "Sum" ->
            IF expr.c = <<>> THEN 0
            ELSE CoefficientValue(Head(expr.c), face)
                    + CoefficientValue(Sum(Tail(expr.c)), face)
      [] expr.k = "Product" ->
            IF expr.c = <<>> THEN 1
            ELSE CoefficientValue(Head(expr.c), face)
                    * CoefficientValue(Product(Tail(expr.c)), face)
      [] expr.k = "Power" -> IntegerPower(CoefficientValue(expr.c[1], face), expr.v)
      [] expr.k = "IfPositive" ->
            IF CoefficientValue(expr.c[1], face) > 0
            THEN CoefficientValue(expr.c[2], face)
            ELSE CoefficientValue(expr.c[3], face)

\* an integer power with exponent >= 0 of a base of the flux sub-language
IsNaturalPower(n) ==
    /\ n.k = "Power"
    /\ n.s = "int"
    /\ n.v >= 0
    /\ AllNodes(n.c[1], LAMBDA m : m.k \in FluxLanguageKinds \ {"Power"})

\* C23: the kernel compiled for b**e, e an integer >= 0, has at every face
\* the value of b raised to e, and for e >= 1 holds e-1 product nodes more
\* than the kernel of b.
C23_PowerIsRepeatedProduct ==
    (pc = "kernel" /\ IsNaturalPower(optemplate)) =>
        /\ \A face \in {BoundaryFace(1, MaxAxis + 1), InteriorFaces(MaxAxis + 1)[2]} :
                FluxKernelValue(result, face) = CoefficientValue(optemplate, face)
        /\ optemplate.v >= 1 =>
                Cardinality({n \in SubNodes(result) : n.k = "ProductFlux"})
                    = optemplate.v - 1
                        + Cardinality({n \in SubNodes(optemplate.c[1]) : n.k = "Product"})

(***************************************************************************)
(* Specification SpecDiffMemo: execution calls on one compiled sum of      *)
(* differentiation bindings, one step per binding, with the                *)
(* diff_rst_cache of the ExecutionMapper as state (discr_precompiled.py).  *)
(* context holds the fields of the call, the cache, the keys for which the *)
(* reference-axis derivatives were computed in this call, the position of  *)
(* the next binding and the number of calls begun.                         *)
(***************************************************************************)
MaxCalls == 2

\* ExecutionMapper.diff_rst: the matrix of the operator class along one
\* reference axis, applied to a field
diff_rst(op, rst_axis, field) ==
    Vector([i \in Nodes |->
        Const(IF op.k = "DifferentiationOperator"
              THEN (rst_axis + 2) * field.c[i].v + field.c[Succ(i)].v
              ELSE (rst_axis + 2) * field.c[i].v
                        + field.c[((i + NumNodes - 2) % NumNodes) + 1].v)])

ExecutionMapper_diff_rst_cache_Kept(previous) == previous

\* ExecutionMapper.__init__: self.diff_rst_cache = {}
ExecutionMapper_diff_rst_cache(previous) == <<>>

InitDiffMemo ==
    LET Bindings ==
            {OperatorBinding(op, x) :
                op \in UNION {{DifferentiationOperator(a), StiffnessTOperator(a)} : a \in Axes},
                x \in {Var("u"), Var("v")}}
    IN
    /\ pc = "idle"
    /\ optemplate \in {Sum(<<a, b, c>>) : a \in Bindings, b \in Bindings, c \in Bindings}
    /\ result = volume_zeros
    /\ context = [vars |-> ("u" :> Ramp @@ "v" :> Ones), dimensions |-> MaxAxis + 1,
                  diff_rst_cache |-> <<>>, computed |-> <<>>, position |-> 1, calls |-> 0]

\* Discretization.run_preprocessed_optemplate: ExecutionMapper(vars, self)
begin_call ==
    /\ pc = "idle"
    /\ context.calls < MaxCalls
    /\ \E fields \in {("u" :> Ramp @@ "v" :> Ones), ("u" :> Ones @@ "v" :> Ramp)} :
        context' = [context EXCEPT
                        !.vars = fields,
                        !.diff_rst_cache = ExecutionMapper_diff_rst_cache(@),
                        !.computed = <<>>,
                        !.position = 1,
                        !.calls = @ + 1]
    /\ result' = volume_zeros
    /\ pc' = "running"
    /\ UNCHANGED optemplate

\* map_diff_base and diff_xyz on the next binding of the sum
diff_xyz ==
    /\ pc = "running"
    /\ context.position <= Len(optemplate.c)
    /\ LET op == optemplate.c[context.position].c[1]
           expr == optemplate.c[context.position].c[2]
           field == context.vars[expr.s]
           key == <<op.k, expr>>
           hit == key \in DOMAIN context.diff_rst_cache
           rst_derivatives ==
                IF hit THEN context.diff_rst_cache[key]
                ELSE [rst_axis \in 1..context.dimensions |-> diff_rst(op, rst_axis - 1, field)]
           \* op.coefficients(eg)[op.xyz_axis][rst_axis]
           coefficient(rst_axis) == 1 + op.v + 2 * rst_axis
           RECURSIVE scaled(_, _)
           scaled(rst_axis, node) ==
                IF rst_axis > context.dimensions THEN 0
                ELSE coefficient(rst_axis - 1) * rst_derivatives[rst_axis].c[node].v
                        + scaled(rst_axis + 1, node)
       IN /\ context' = [context EXCEPT
                            !.diff_rst_cache = IF hit THEN @ ELSE (key :> rst_derivatives) @@ @,
                            !.computed = IF hit THEN @ ELSE Append(@, key),
                            !.position = @ + 1]
          /\ result' = Vector([i \in Nodes |-> Const(result.c[i].v + scaled(1, i))])
    /\ UNCHANGED <<pc, optemplate>>

\* the call returns
end_call ==
    /\ pc = "running"
    /\ context.position > Len(optemplate.c)
    /\ pc' = "idle"
    /\ UNCHANGED <<optemplate, result, context>>

NextDiffMemo == begin_call \/ diff_xyz \/ end_call

SpecDiffMemo == InitDiffMemo /\ [][NextDiffMemo]_vars

\* the (operator kind, operand expression) pairs of the bindings evaluated so
\* far in the call
EvaluatedKeys ==
    {<<optemplate.c[i].c[1].k, optemplate.c[i].c[2]>> : i \in 1..(context.position - 1)}

\* C24: in a call the reference-axis derivatives are computed once for each
\* (operator kind, operand expression) pair met so far, whatever the axes of
\* the bindings; the cache is empty when a call begins; and every entry of
\* the cache is the derivative of the fields of the running call.
C24_CallScopedMemo ==
    pc = "running" =>
        /\ context.position = 1 => context.diff_rst_cache = <<>>
        /\ Len(context.computed) = Cardinality(EvaluatedKeys)
        /\ {context.computed[i] : i \in 1..Len(context.computed)} = EvaluatedKeys
        /\ DOMAIN context.diff_rst_cache = EvaluatedKeys
        /\ \A key \in DOMAIN context.diff_rst_cache :
                context.diff_rst_cache[key] =
                    [rst_axis \in 1..context.dimensions |->
                        diff_rst(Node(key[1], 0, "", <<>>), rst_axis - 1,
                                 context.vars[key[2].s])]

\* in the second call, with other field values than at the start, two
\* bindings of one pair along different axes shared one computation
C24_Witness ==
    /\ pc = "running"
    /\ context.calls = 2
    /\ context.vars["u"] = Ones
    /\ context.position = 3
    /\ optemplate.c[1].c[1] = DifferentiationOperator(0)
    /\ optemplate.c[2].c[1] = DifferentiationOperator(MaxAxis)
    /\ optemplate.c[1].c[2] = optemplate.c[2].c[2]
    /\ Len(context.computed) = 1

(***************************************************************************)
(* QuadratureUpsamplerRemover (mappers/__init__.py).  quad_min_degrees maps *)
(* quadrature tags to Const(degree) or to the node None; the mapper returns *)
(* [result, warnings], warnings being the tags it warned about, in order.  *)
(***************************************************************************)
is_None_Never(min_degree) == FALSE

\* min_degree is None
is_None(min_degree) == min_degree.k = "None"

RECURSIVE QuadratureUpsamplerRemover(_, _)
QuadratureUpsamplerRemover(quad_min_degrees, expr) ==
    LET sub == [i \in 1..Len(expr.c) |-> QuadratureUpsamplerRemover(quad_min_degrees, expr.c[i])]
        mapped == [i \in 1..Len(sub) |-> sub[i].result]
        warnings == ConcatAll([i \in 1..Len(sub) |-> sub[i].warnings])
    IN
    CASE expr.k = "OperatorBinding" ->
            LET op == expr.c[1] IN
            IF op.k \in {"QuadratureGridUpsampler", "QuadratureInteriorFacesGridUpsampler"}
            THEN IF op.s \notin DOMAIN quad_min_degrees
                 THEN [result |-> expr.c[2], warnings |-> <<op.s>>]
                 ELSE IF is_None(quad_min_degrees[op.s])
                 THEN sub[2]
                 ELSE [result |-> Operator_call(op, mapped[2]), warnings |-> sub[2].warnings]
            ELSE [result |-> IF IsRaise(mapped[2]) THEN mapped[2]
                             ELSE OperatorBinding(op, mapped[2]),
                  warnings |-> sub[2].warnings]
      [] expr.k = "Sum" -> [result |-> flattened_sum(mapped), warnings |-> warnings]
      [] expr.k = "Product" -> [result |-> flattened_product(mapped), warnings |-> warnings]
      [] expr.k \in {"BoundaryPair", "ObjArray"} ->
            [result |-> IF AnyRaise(mapped) THEN FirstRaise(mapped)
                        ELSE Node(expr.k, expr.v, expr.s, mapped),
             warnings |-> warnings]
      [] OTHER -> [result |-> expr, warnings |-> <<>>]

(***************************************************************************)
(* Specification SpecUpsample: the QuadratureUpsamplerRemover runs on an   *)
(* upsampler binding; context holds quad_min_degrees and, after the run,   *)
(* the warnings.                                                           *)
(***************************************************************************)
InitUpsample ==
    LET QuadratureTags == {"quad_a", "quad_b"}
        Degrees == {Node("None", 0, "", <<>>), Const(MaxConst)}
        \* every table over a subset of the tags
        Tables == UNION {[tags -> Degrees] : tags \in SUBSET QuadratureTags}
        Upsamplers ==
            UNION {{QuadratureGridUpsampler(q), QuadratureInteriorFacesGridUpsampler(q)} :
                        q \in QuadratureTags}
        Leaves == {Var("u"), Const(0)}
        Level1 ==
            Leaves \cup {OperatorBinding(op, x) : op \in Upsamplers \cup {MassOperator}, x \in Leaves}
        Operands ==
            Level1 \cup {Sum(<<Var("v"), x>>) : x \in Level1}
    IN
    /\ pc = "bound"
    /\ optemplate \in {OperatorBinding(op, x) : op \in Upsamplers \cup {MassOperator}, x \in Operands}
    /\ result = Const(0)
    /\ context \in {[quad_min_degrees |-> t, warnings |-> <<>>] : t \in Tables}

\* QuadratureUpsamplerRemover(quad_min_degrees)(optemplate)
remove_upsamplers ==
    /\ pc = "bound"
    /\ LET removed == QuadratureUpsamplerRemover(context.quad_min_degrees, optemplate) IN
        /\ result' = removed.result
        /\ context' = [context EXCEPT !.warnings = removed.warnings]
        /\ pc' = IF IsRaise(removed.result) THEN "raised" ELSE "removed"
    /\ UNCHANGED optemplate

NextUpsample == remove_upsamplers

SpecUpsample == InitUpsample /\ [][NextUpsample]_vars

IsUpsamplerBinding(n) ==
    /\ n.k = "OperatorBinding"
    /\ n.c[1].k \in {"QuadratureGridUpsampler", "QuadratureInteriorFacesGridUpsampler"}

\* the rewritten operand of the binding, and the warnings of rewriting it
RewrittenOperand == QuadratureUpsamplerRemover(context.quad_min_degrees, optemplate.c[2])

\* C25: for an upsampler binding the remover never raises; with no degree
\* configured for the tag it warns and returns the operand as it is; with a
\* degree of None it returns the rewritten operand and adds no warning; with
\* a degree configured it returns the upsampler applied to the rewritten
\* operand and adds no warning.
C25_UpsamplerFallback ==
    IsUpsamplerBinding(optemplate) =>
        /\ pc # "raised"
        /\ pc = "removed" =>
            LET tag == optemplate.c[1].s
                table == context.quad_min_degrees
            IN
            IF tag \notin DOMAIN table
            THEN result = optemplate.c[2] /\ context.warnings = <<tag>>
            ELSE IF table[tag] = Node("None", 0, "", <<>>)
            THEN result = RewrittenOperand.result
                    /\ context.warnings = RewrittenOperand.warnings
            ELSE result = Operator_call(optemplate.c[1], RewrittenOperand.result)
                    /\ context.warnings = RewrittenOperand.warnings

\* a tag with degree None over an operand holding an upsampler with a degree:
\* the outer upsampler is gone, the inner one kept, and nothing was warned
C25_Witness ==
    /\ pc = "removed"
    /\ optemplate.c[1] = QuadratureGridUpsampler("quad_a")
    /\ optemplate.c[2] = OperatorBinding(QuadratureGridUpsampler("quad_b"), Var("u"))
    /\ "quad_a" \in DOMAIN context.quad_min_degrees
    /\ "quad_b" \in DOMAIN context.quad_min_degrees
    /\ context.quad_min_degrees["quad_a"].k = "None"
    /\ context.quad_min_degrees["quad_b"] = Const(MaxConst)
    /\ result = optemplate.c[2]
    /\ context.warnings = <<>>

====
